---------------------------- MODULE Spec2Model ----------------------------
(***************************************************************************)
(* A model of the RISC-V Root-of-Trust kernel (src/rot/src/main.rs) on a   *)
(* single RV32 hart: the boot prologue, rot_main and the routines it       *)
(* calls, the unified trap handler, the privilege-drop launcher and the    *)
(* user application, together with the hardware rules the code relies on   *)
(* (CSR existence, trap entry, mret, Physical Memory Protection).          *)
(*                                                                         *)
(* 32-bit values that take part in bit arithmetic (the PMP registers and   *)
(* physical addresses) are sets of bit positions: 0x8001_0000 is {31, 16}. *)
(* Register contents that are link-time symbols are pairs <<symbol, off>>. *)
(***************************************************************************)
EXTENDS Integers, Sequences, FiniteSets, TLC

---------------------------------------------------------------------------
(* 32-bit words as sets of bit positions                                   *)

Min(S) == CHOOSE x \in S : \A y \in S : x <= y

Max(S) == CHOOSE x \in S : \A y \in S : x >= y

RECURSIVE Pow2(_)
Pow2(n) == IF n = 0 THEN 1 ELSE 2 * Pow2(n - 1)

\* The u32 with value n, for 0 <= n < 2^31.
U32(n) == {i \in 0..30 : (n \div Pow2(i)) % 2 = 1}

\* The u32 0xHHHH_LLLL from its two 16-bit halves.
HiLo(hi, lo) == U32(lo) \cup {i + 16 : i \in U32(hi)}

\* v >> n and v << n on 32 bits.
Shr(v, n) == {i - n : i \in {j \in v : j >= n}}

Shl(v, n) == {i + n : i \in {j \in v : j + n <= 31}}

\* u32::wrapping_sub(v, 1): borrow through the trailing zeros.
wrapping_sub_1(v) ==
    IF v = {} THEN 0..31
    ELSE LET m == Min(v) IN (v \ {m}) \cup (0..(m - 1))

\* v + 1 modulo 2^32: carry through the trailing ones.
wrapping_add_1(v) ==
    IF v = 0..31 THEN {}
    ELSE LET m == Min((0..31) \ v) IN (v \ (0..(m - 1))) \cup {m}

\* Unsigned a < b: at the highest bit where they differ, b has the one.
Less32(a, b) ==
    \E x \in {a}, y \in {b} :
        \E i \in 0..31 :
            /\ i \in y /\ i \notin x
            /\ \A j \in (i + 1)..31 : (j \in x) <=> (j \in y)

\* The carry into bit i of a + b: some lower bit generates a carry and
\* every bit between propagates it.
CarryInto(a, b, i) ==
    \E j \in 0..(i - 1) :
        /\ j \in a /\ j \in b
        /\ \A k \in (j + 1)..(i - 1) : k \in a \/ k \in b

\* a + b and a - b modulo 2^32.
Add32(a, b) ==
    UNION {{i \in 0..31 : ((i \in x) # (i \in y)) # CarryInto(x, y, i)}
           : x \in {a}, y \in {b}}

Sub32(a, b) == Add32(a, wrapping_add_1((0..31) \ b))

\* The number a set of bit positions (all below 31) stands for.
RECURSIVE SumBits(_, _)
SumBits(v, i) ==
    IF i > 30 THEN 0
    ELSE (IF i \in v THEN Pow2(i) ELSE 0) + SumBits(v, i + 1)

ToNat(v) == CHOOSE n \in {SumBits(x, 0) : x \in {v}} : TRUE

---------------------------------------------------------------------------
(* PMP constants and the values configure_pmp computes                     *)

PMP_NAPOT == 24

PMP_R == 1

PMP_W == 2

PMP_X == 4

PMP_L == 128

\* (base >> 2) | ((size >> 3).wrapping_sub(1))
pmp_napot_addr(base, size) == Shr(base, 2) \cup wrapping_sub_1(Shr(size, 3))

\* The (base, size) pair configure_pmp passes to pmp_napot_addr for entry i.
pmp_args(i) ==
    CASE i = 0 -> <<HiLo(\h8000, \h0000), U32(64 * 1024)>>
      [] i = 1 -> <<HiLo(\h8001, \h0000), U32(32 * 1024)>>
      [] i = 2 -> <<HiLo(\h8001, \h8000), U32(8 * 1024)>>
      [] i = 3 -> <<HiLo(\h8002, \h0000), U32(128 * 1024)>>
      [] i = 4 -> <<HiLo(\h8004, \h0000), U32(32 * 1024)>>
      [] i = 5 -> <<HiLo(\h8004, \h8000), U32(64 * 1024)>>
      [] i = 6 -> <<HiLo(\h8005, \h8000), U32(8 * 1024)>>
      [] i = 7 -> <<HiLo(\h1000, \h0000), U32(4 * 1024)>>

\* Entry 0: M-mode code (ROM), Locked R+X.
pmp0_addr == pmp_napot_addr(pmp_args(0)[1], pmp_args(0)[2])

\* Entry 0 left unlocked.
pmp0_cfg_unlocked == U32(PMP_NAPOT) \cup U32(PMP_R) \cup U32(PMP_X)

pmp0_cfg == U32(PMP_L) \cup U32(PMP_NAPOT) \cup U32(PMP_R) \cup U32(PMP_X)

\* Entry 1: M-mode data (M_RAM), configuration 0.
pmp1_addr == pmp_napot_addr(pmp_args(1)[1], pmp_args(1)[2])

\* Entry 1 given the kernel's own R+W as its permission bits.
pmp1_cfg_user_rw == U32(PMP_NAPOT) \cup U32(PMP_R) \cup U32(PMP_W)

pmp1_cfg == U32(0)

\* Entry 2: M-mode shadow stacks, configuration 0.
pmp2_addr == pmp_napot_addr(pmp_args(2)[1], pmp_args(2)[2])

pmp2_cfg == U32(0)

\* Entry 3: U-mode code, R+X.
pmp3_addr == pmp_napot_addr(pmp_args(3)[1], pmp_args(3)[2])

\* Entry 3 given the kernel's R+W+X as its permission bits.
pmp3_cfg_rwx == U32(PMP_NAPOT) \cup U32(PMP_R) \cup U32(PMP_W) \cup U32(PMP_X)

pmp3_cfg == U32(PMP_NAPOT) \cup U32(PMP_R) \cup U32(PMP_X)

\* Entry 4: U-mode rodata, R.
pmp4_addr == pmp_napot_addr(pmp_args(4)[1], pmp_args(4)[2])

\* Entry 4 locked as well.
pmp4_cfg_locked == U32(PMP_L) \cup U32(PMP_NAPOT) \cup U32(PMP_R)

pmp4_cfg == U32(PMP_NAPOT) \cup U32(PMP_R)

\* Entry 5: U-mode data/stack, R+W.
pmp5_addr == pmp_napot_addr(pmp_args(5)[1], pmp_args(5)[2])

pmp5_cfg == U32(PMP_NAPOT) \cup U32(PMP_R) \cup U32(PMP_W)

\* Entry 6: U-mode shadow stacks, R+W.
pmp6_addr == pmp_napot_addr(pmp_args(6)[1], pmp_args(6)[2])

pmp6_cfg == U32(PMP_NAPOT) \cup U32(PMP_R) \cup U32(PMP_W)

\* Entry 7: UART MMIO, R+W.
pmp7_addr == pmp_napot_addr(pmp_args(7)[1], pmp_args(7)[2])

pmp7_cfg == U32(PMP_NAPOT) \cup U32(PMP_R) \cup U32(PMP_W)

\* Four configuration bytes per pmpcfg register.
pmpcfg0_value ==
    pmp0_cfg \cup Shl(pmp1_cfg, 8) \cup Shl(pmp2_cfg, 16) \cup Shl(pmp3_cfg, 24)

pmpcfg1_value ==
    pmp4_cfg \cup Shl(pmp5_cfg, 8) \cup Shl(pmp6_cfg, 16) \cup Shl(pmp7_cfg, 24)

---------------------------------------------------------------------------
(* Machine state                                                           *)

VARIABLES
    hw,        \* which optional CSRs the hart implements: menvcfg, senvcfg, ssp
    pc,        \* <<function, byte offset>> of the next instruction
    priv,      \* "M" or "U"
    regs,      \* the general-purpose registers the code names
    csr,       \* mstatus, mepc, mcause, mtvec, menvcfg, senvcfg, ssp
    pmpaddr,   \* pmpaddr0..15
    pmpcfg,    \* pmpcfg0..3, four configuration bytes each
    mem,       \* the RAM words written so far, by address
    uart,      \* what has been written to the UART data register, in order
    finisher   \* what has been written to the test finisher, in order

vars == <<hw, pc, priv, regs, csr, pmpaddr, pmpcfg, mem, uart, finisher>>

---------------------------------------------------------------------------
(* Physical Memory Protection, as the hart applies it                      *)

PmpEntries == 0..15

\* Configuration byte of entry i: byte i % 4 of register pmpcfg(i / 4).
PmpCfgByte(i) == {b \in 0..7 : (b + 8 * (i % 4)) \in pmpcfg[i \div 4]}

PmpLocked(i) == 7 \in PmpCfgByte(i)

\* The A field, bits 4:3: 0 OFF, 1 TOR, 2 NA4, 3 NAPOT.
PmpMode(i) ==
    (IF 3 \in PmpCfgByte(i) THEN 1 ELSE 0) + (IF 4 \in PmpCfgByte(i) THEN 2 ELSE 0)

\* Number of trailing one bits of a pmpaddr value.
TrailingOnes(v) == CHOOSE k \in 0..32 : k \notin v /\ \A j \in 0..(k - 1) : j \in v

\* A NAPOT pmpaddr value decoded: yyyy...y01...1 with k trailing ones is the
\* 2^(k+3)-byte range whose address bits above bit k+2 are the y bits.
NapotBase(v) == {j + 2 : j \in {b \in v : b > TrailingOnes(v)}}

NapotSizeLog2(v) == TrailingOnes(v) + 3

\* Whether entry i matches the (32-bit) byte address a. pmpaddr holds
\* address bits 33:2; bits 33:32 of a 32-bit address are zero.
PmpMatch(i, a) ==
    LET w == Shr(a, 2)
        p == pmpaddr[i]
    IN  CASE PmpMode(i) = 0 -> FALSE
          [] PmpMode(i) = 1 ->
                /\ ~Less32(w, IF i = 0 THEN {} ELSE pmpaddr[i - 1])
                /\ Less32(w, p)
          [] PmpMode(i) = 2 -> w = p
          [] OTHER ->
                \E k \in {TrailingOnes(p)} :
                    \A b \in (k + 1)..31 : (b \in p) <=> (b <= 29 /\ (b + 2) \in a)

\* The bit of a configuration byte that grants an access type.
PermBit(acc) == CASE acc = "R" -> 0 [] acc = "W" -> 1 [] OTHER -> 2

\* First match wins. M-mode passes unless the matching entry is locked; with
\* no matching entry M-mode passes and U-mode fails.
PmpAllows(mode, a, acc) ==
    \E x \in {a} :
        IF \A i \in PmpEntries : ~PmpMatch(i, x) THEN mode = "M"
        ELSE \E i \in PmpEntries :
                /\ PmpMatch(i, x)
                /\ \A j \in 0..(i - 1) : ~PmpMatch(j, x)
                /\ IF mode = "M" /\ ~PmpLocked(i) THEN TRUE
                   ELSE PermBit(acc) \in PmpCfgByte(i)

\* A write of v to pmpaddr(i): ignored when the entry is locked, or when the
\* next entry is a locked TOR entry.
PmpAddrWrite(i, v) ==
    IF PmpLocked(i) \/ (i < 15 /\ PmpLocked(i + 1) /\ PmpMode(i + 1) = 1)
    THEN pmpaddr
    ELSE [pmpaddr EXCEPT ![i] = v]

\* A write of v to pmpcfg(r): the bytes of locked entries keep their value.
PmpCfgWrite(r, v) ==
    LET keep == UNION {8 * j .. 8 * j + 7 : j \in {k \in 0..3 : PmpLocked(4 * r + k)}}
    IN  [pmpcfg EXCEPT ![r] = (pmpcfg[r] \cap keep) \cup (v \ keep)]

---------------------------------------------------------------------------
(* Register values                                                         *)
(*                                                                         *)
(* A value is <<"abs", n>>, the 32-bit number n read as a signed integer,  *)
(* or <<symbol, off>>, a link-time symbol (or function) plus a byte        *)
(* offset, or <<"mstatus", MPP>>, an image of mstatus, or <<"unknown", 0>>,*)
(* a word the source does not determine.                                   *)

Abs(n) == <<"abs", n>>

Unknown == <<"unknown", 0>>

Off(v, n) == <<v[1], v[2] + n>>

\* Bits of a signed 32-bit integer, and back.
ToBits(n) == {i \in 0..30 : (n \div Pow2(i)) % 2 = 1} \cup (IF n < 0 THEN {31} ELSE {})

FromBits(v) ==
    IF 31 \in v THEN (ToNat(v \ {31}) - Pow2(30)) - Pow2(30) ELSE ToNat(v)

\* m + n modulo 2^32 on signed 32-bit integers; the bitwise sum only where
\* the plain one could leave the 32 bits.
WrapAdd(m, n) ==
    IF m \in -1073741824..1073741823 /\ n \in -1073741824..1073741823
    THEN m + n
    ELSE FromBits(Add32(ToBits(m), ToBits(n)))

VAdd(x, y) ==
    IF x[1] = "abs" /\ y[1] = "abs" THEN Abs(WrapAdd(x[2], y[2]))
    ELSE IF y[1] = "abs" THEN Off(x, y[2])
    ELSE IF x[1] = "abs" THEN Off(y, x[2])
    ELSE Unknown

VXor(x, y) ==
    IF x[1] = "abs" /\ y[1] = "abs"
    THEN Abs(FromBits((ToBits(x[2]) \ ToBits(y[2])) \cup (ToBits(y[2]) \ ToBits(x[2]))))
    ELSE Unknown

VOr(x, y) ==
    IF x[1] = "abs" /\ y[1] = "abs"
    THEN Abs(FromBits(ToBits(x[2]) \cup ToBits(y[2])))
    ELSE Unknown

\* An mstatus image keeps only MPP, bits 12:11.
VAnd(x, y) ==
    IF x[1] = "abs" /\ y[1] = "abs"
    THEN Abs(FromBits(ToBits(x[2]) \cap ToBits(y[2])))
    ELSE IF x[1] = "mstatus" /\ y[1] = "abs"
    THEN <<"mstatus", ToNat(U32(x[2]) \cap Shr(ToBits(y[2]) \cap {11, 12}, 11))>>
    ELSE Unknown

\* a * b modulo 2^32: the sum of a << i over the bits i of b.
RECURSIVE MulBits(_, _, _)
MulBits(a, b, i) ==
    IF i > 31 THEN {}
    ELSE Add32(IF i \in b THEN Shl(a, i) ELSE {}, MulBits(a, b, i + 1))

\* The product of two halfword-sized operands does not wrap.
VMul(x, y) ==
    IF x[1] = "abs" /\ y[1] = "abs"
    THEN IF x[2] \in 0..65535 /\ y[2] \in 0..32767
         THEN Abs(x[2] * y[2])
         ELSE Abs(FromBits(MulBits(ToBits(x[2]), ToBits(y[2]), 0)))
    ELSE Unknown

VSll(x, n) ==
    IF x[1] = "abs" THEN Abs(FromBits(Shl(ToBits(x[2]), n))) ELSE Unknown

---------------------------------------------------------------------------
(* Bounds                                                                  *)

\* Words of .bss and of .data the boot prologue clears and copies.
BssWords == 1

DataWords == 1

\* The longest string user firmware passes to a syscall.
MaxBytes == 2

\* Words of the U_CODE region the boot-time measurement visits (the call in
\* rot_main passes 128 KiB).
MeasureWords == 2

---------------------------------------------------------------------------
(* Link-time symbols                                                       *)

\* What `la rd, symbol` loads. The end symbols lie a whole number of words
\* above their start symbols.
Sym(name) ==
    CASE name = "_m_bss_end" -> <<"_m_bss_start", 4 * BssWords>>
      [] name = "_m_data_end" -> <<"_m_data_start", 4 * DataWords>>
      [] name = "_bss_end" -> <<"_bss_start", 4 * BssWords>>
      [] name = "_data_end" -> <<"_data_start", 4 * DataWords>>
      [] OTHER -> <<name, 0>>

\* The region base each symbol is placed at or, for the stack and shadow
\* stack tops, the end of its region.
SymAddr(name) ==
    CASE name \in {"_start", "rot_main", "_trap_handler", "rot_measure_firmware",
                   "rot_seal_secret", "_m_data_load"} -> HiLo(\h8000, \h0000)
      [] name \in {"_m_bss_start", "_m_data_start"} -> HiLo(\h8001, \h0000)
      [] name = "_m_stack_top" -> HiLo(\h8001, \h8000)
      [] name = "_m_shadow_stack_top" -> HiLo(\h8001, \h9000)
      [] name = "_m_sw_shadow_stack_bottom" -> HiLo(\h8001, \h9000)
      [] name \in {"_u_entry", "u_add_100", "u_double", "u_blob"} -> HiLo(\h8002, \h0000)
      [] name = "u_buf" -> HiLo(\h8004, \h8000)
      [] name = "_u_stack_top" -> HiLo(\h8005, \h8000)
      [] name = "_u_shadow_stack_top" -> HiLo(\h8005, \h9000)
      [] name = "_u_sw_shadow_stack_bottom" -> HiLo(\h8005, \h9000)
      [] OTHER -> {}

\* The physical address a value denotes.
Phys(v) ==
    IF v[1] = "abs" THEN ToBits(v[2])
    ELSE IF v[2] >= 0 THEN Add32(SymAddr(v[1]), U32(v[2]))
    ELSE Sub32(SymAddr(v[1]), U32(0 - v[2]))

UART_BASE == Abs(FromBits(HiLo(\h1000, \h0000)))

TEST_FINISHER == Abs(FromBits(HiLo(\h0010, \h0000)))

---------------------------------------------------------------------------
(* The program text                                                        *)
(*                                                                         *)
(* One tuple <<label, op, a, b, c>> per instruction, in source order. Each *)
(* instruction takes four bytes of the pc: the instructions that can trap  *)
(* and be skipped (CSR accesses, ecall, mret, the .4byte words) are 4-byte *)
(* encodings. A Rust statement that only writes to the UART is the         *)
(* pseudo-instruction "puts" (or "hex32") with the source line of the call.*)
(* The operands `bits` and `tmp` of the asm! blocks are registers of the   *)
(* same name.                                                              *)

I(op, a, b, c) == <<"", op, a, b, c>>

L(label, op, a, b, c) == <<label, op, a, b, c>>

code_start ==
    << I("la", "sp", "_m_stack_top", 0),
       I("la", "t0", "_trap_handler", 0),
       I("csrw", "mtvec", "t0", 0),
       I("la", "t0", "_m_bss_start", 0),
       I("la", "t1", "_m_bss_end", 0),
       L("1", "beq", "t0", "t1", "2"),
       I("sw", "zero", 0, "t0"),
       I("addi", "t0", "t0", 4),
       I("j", "1", 0, 0),
       L("2", "la", "t0", "_m_data_start", 0),
       I("la", "t1", "_m_data_end", 0),
       I("la", "t2", "_m_data_load", 0),
       L("3", "beq", "t0", "t1", "4"),
       I("lw", "t3", 0, "t2"),
       I("sw", "t3", 0, "t0"),
       I("addi", "t0", "t0", 4),
       I("addi", "t2", "t2", 4),
       I("j", "3", 0, 0),
       L("4", "la", "gp", "_m_sw_shadow_stack_bottom", 0),
       I("call", "rot_main", 0, 0),
       L("5", "wfi", 0, 0, 0),
       I("j", "5", 0, 0) >>

enable_cfi ==
    << I("puts", 247, 0, 0),
       I("li", "bits", 12, 0),
       L("csrs_menvcfg", "csrs", "menvcfg", "bits", 0),
       I("puts", 256, 0, 0),
       L("csrs_senvcfg", "csrs", "senvcfg", "bits", 0),
       I("puts", 265, 0, 0),
       I("la", "tmp", "_m_shadow_stack_top", 0),
       L("csrw_ssp", "csrw", "ssp", "tmp", 0),
       I("puts", 274, 0, 0),
       I("puts", 277, 0, 0) >>

\* configure_pmp with the two configuration writes left out: the address
\* registers are loaded but no entry is switched on.
configure_pmp_cfg_unwritten ==
    << I("puts", 122, 0, 0),
       I("csrw_pmpaddr", 0, pmp0_addr, 0),
       I("csrw_pmpaddr", 1, pmp1_addr, 0),
       I("csrw_pmpaddr", 2, pmp2_addr, 0),
       I("csrw_pmpaddr", 3, pmp3_addr, 0),
       I("csrw_pmpaddr", 4, pmp4_addr, 0),
       I("csrw_pmpaddr", 5, pmp5_addr, 0),
       I("csrw_pmpaddr", 6, pmp6_addr, 0),
       I("csrw_pmpaddr", 7, pmp7_addr, 0),
       L("csrw_pmpcfg0", "puts", 224, 0, 0),
       L("configure_pmp_end", "puts", 232, 0, 0) >>

configure_pmp ==
    << I("puts", 122, 0, 0),
       I("csrw_pmpaddr", 0, pmp0_addr, 0),
       I("csrw_pmpaddr", 1, pmp1_addr, 0),
       I("csrw_pmpaddr", 2, pmp2_addr, 0),
       I("csrw_pmpaddr", 3, pmp3_addr, 0),
       I("csrw_pmpaddr", 4, pmp4_addr, 0),
       I("csrw_pmpaddr", 5, pmp5_addr, 0),
       I("csrw_pmpaddr", 6, pmp6_addr, 0),
       I("csrw_pmpaddr", 7, pmp7_addr, 0),
       L("csrw_pmpcfg0", "csrw_pmpcfg", 0, pmpcfg0_value, 0),
       L("csrw_pmpcfg1", "csrw_pmpcfg", 1, pmpcfg1_value, 0),
       I("puts", 224, 0, 0),
       I("puts", 225, 0, 0),
       I("puts", 226, 0, 0),
       I("puts", 227, 0, 0),
       I("puts", 228, 0, 0),
       I("puts", 229, 0, 0),
       I("puts", 230, 0, 0),
       I("puts", 231, 0, 0),
       L("configure_pmp_end", "puts", 232, 0, 0) >>

launch_umode ==
    << I("puts", 559, 0, 0),
       I("puts", 560, 0, 0),
       I("puts", 561, 0, 0),
       I("puts", 562, 0, 0),
       I("puts", 563, 0, 0),
       I("puts", 564, 0, 0),
       I("csrr", "t0", "mstatus", 0),
       I("li", "t1", -6145, 0),
       I("and", "t0", "t0", "t1"),
       I("csrw", "mstatus", "t0", 0),
       I("la", "t0", "_u_entry", 0),
       I("csrw", "mepc", "t0", 0),
       I("la", "sp", "_u_stack_top", 0),
       I("la", "t0", "_u_shadow_stack_top", 0),
       L("launch_csrw_ssp", "csrw", "ssp", "t0", 0),
       I("la", "gp", "_u_sw_shadow_stack_bottom", 0),
       L("launch_mret", "mret", 0, 0, 0) >>

\* rot_main with the three Rust routines it calls in place of their calls.
code_rot_main ==
    << I("puts", 808, 0, 0),
       I("puts", 809, 0, 0),
       I("puts", 810, 0, 0),
       I("puts", 811, 0, 0),
       I("puts", 814, 0, 0) >>
    \o enable_cfi \o
    << L("enable_cfi_end", "puts", 818, 0, 0) >>
    \o configure_pmp \o
    << I("puts", 822, 0, 0),
       I("puts", 823, 0, 0),
       I("li", "a0", FromBits(HiLo(\h8002, \h0000)), 0),
       I("li", "a1", 4 * MeasureWords, 0),
       I("call", "rot_measure_firmware", 0, 0),
       I("puts", 828, 0, 0),
       I("hex32", 829, 0, 0),
       I("puts", 830, 0, 0),
       I("puts", 831, 0, 0),
       I("puts", 835, 0, 0),
       I("li", "a0", FromBits(HiLo(\hDEAD, \hBEEF)), 0),
       I("li", "a1", 1, 0),
       I("call", "rot_seal_secret", 0, 0),
       I("puts", 838, 0, 0),
       I("hex32", 839, 0, 0),
       I("puts", 840, 0, 0),
       I("puts", 841, 0, 0),
       I("puts", 845, 0, 0),
       I("puts", 846, 0, 0),
       I("puts", 847, 0, 0),
       I("puts", 848, 0, 0),
       I("puts", 849, 0, 0),
       I("puts", 850, 0, 0),
       I("puts", 851, 0, 0),
       I("puts", 852, 0, 0) >>
    \o launch_umode


\* Save the frame and dispatch on mcause.
trap_entry ==
    << I("addi", "sp", "sp", -64),
       I("sw", "ra", 0, "sp"),
       I("sw", "t0", 4, "sp"),
       I("sw", "t1", 8, "sp"),
       I("sw", "t2", 12, "sp"),
       I("sw", "a0", 16, "sp"),
       I("sw", "a1", 20, "sp"),
       I("sw", "a2", 24, "sp"),
       I("sw", "a7", 28, "sp"),
       I("csrr", "t0", "mcause", 0),
       I("li", "t1", 8, 0),
       I("beq", "t0", "t1", "_handle_ecall"),
       I("li", "t1", 2, 0),
       I("beq", "t0", "t1", "_handle_illegal"),
       I("li", "t1", 18, 0),
       I("beq", "t0", "t1", "_handle_cfi_violation"),
       I("li", "t1", 1, 0),
       I("beq", "t0", "t1", "_handle_cfi_violation"),
       I("j", "_handle_unknown_trap", 0, 0) >>

\* The ecall path leaving mepc at the ecall.
ecall_mepc_unadvanced ==
    << L("_handle_ecall", "csrr", "t0", "mepc", 0),
       L("ecall_dispatch", "lw", "a7", 28, "sp"),
       I("lw", "a0", 16, "sp"),
       I("lw", "a1", 20, "sp") >>

\* Ecall: advance mepc by 4, then reload the arguments from the frame.
ecall_advance_mepc ==
    << L("_handle_ecall", "csrr", "t0", "mepc", 0),
       I("addi", "t0", "t0", 4),
       I("csrw", "mepc", "t0", 0),
       L("ecall_dispatch", "lw", "a7", 28, "sp"),
       I("lw", "a0", 16, "sp"),
       I("lw", "a1", 20, "sp") >>

\* syscall 0: uart_putc(a0 = char)
syscall_putc ==
    << I("li", "t1", 0, 0),
       I("bne", "a7", "t1", "10"),
       I("li", "t0", UART_BASE[2], 0),
       I("sb", "a0", 0, "t0"),
       I("j", "_trap_return", 0, 0) >>

\* syscall 1 with the pointer stepped before the load.
syscall_puts_step_first ==
    << L("10", "li", "t1", 1, 0),
       I("bne", "a7", "t1", "20"),
       I("li", "t0", UART_BASE[2], 0),
       L("11", "beqz", "a1", "_trap_return", 0),
       I("addi", "a0", "a0", 1),
       I("lb", "t1", 0, "a0"),
       I("sb", "t1", 0, "t0"),
       I("addi", "a1", "a1", -1),
       I("j", "11", 0, 0) >>

\* syscall 1: uart_puts(a0 = ptr, a1 = len)
syscall_puts ==
    << L("10", "li", "t1", 1, 0),
       I("bne", "a7", "t1", "20"),
       I("li", "t0", UART_BASE[2], 0),
       L("11", "beqz", "a1", "_trap_return", 0),
       I("lb", "t1", 0, "a0"),
       I("sb", "t1", 0, "t0"),
       I("addi", "a0", "a0", 1),
       I("addi", "a1", "a1", -1),
       I("j", "11", 0, 0) >>

\* syscall 2 returning to its caller once the finisher is written.
syscall_exit_returns ==
    << L("20", "li", "t1", 2, 0),
       I("bne", "a7", "t1", "30"),
       I("li", "t0", TEST_FINISHER[2], 0),
       I("li", "t1", 21845, 0),
       I("sw", "t1", 0, "t0"),
       L("21", "j", "_trap_return", 0, 0) >>

\* syscall 2: exit(a0 = code)
syscall_exit ==
    << L("20", "li", "t1", 2, 0),
       I("bne", "a7", "t1", "30"),
       I("li", "t0", TEST_FINISHER[2], 0),
       I("li", "t1", 21845, 0),
       I("sw", "t1", 0, "t0"),
       L("21", "wfi", 0, 0, 0),
       I("j", "21", 0, 0) >>

\* syscall 3 without the test of a7: every other number fills the buffer.
syscall_get_random_untested ==
    << L("30", "li", "t2", 170, 0),
       L("31", "beqz", "a1", "_trap_return", 0),
       I("sb", "t2", 0, "a0"),
       I("addi", "a0", "a0", 1),
       I("addi", "a1", "a1", -1),
       I("j", "31", 0, 0) >>

\* syscall 3: get_random(a0 = &buf, a1 = len)
syscall_get_random ==
    << L("30", "li", "t1", 3, 0),
       I("bne", "a7", "t1", "_trap_return"),
       I("li", "t2", 170, 0),
       L("31", "beqz", "a1", "_trap_return", 0),
       I("sb", "t2", 0, "a0"),
       I("addi", "a0", "a0", 1),
       I("addi", "a1", "a1", -1),
       I("j", "31", 0, 0) >>

\* The ecall path: mepc first, then the dispatch on a7.
handle_ecall ==
    ecall_advance_mepc \o syscall_putc \o syscall_puts \o syscall_exit
    \o syscall_get_random

\* The illegal-instruction path without the length test: always skip 2.
handle_illegal_skip2 ==
    << L("_handle_illegal", "csrr", "t0", "mepc", 0),
       L("40", "addi", "t0", "t0", 2),
       L("41", "csrw", "mepc", "t0", 0),
       I("j", "_trap_return", 0, 0) >>

\* Illegal instruction: skip the 4-byte or 2-byte instruction at mepc.
handle_illegal ==
    << L("_handle_illegal", "csrr", "t0", "mepc", 0),
       I("lhu", "t1", 0, "t0"),
       I("andi", "t1", "t1", 3),
       I("li", "t2", 3, 0),
       I("bne", "t1", "t2", "40"),
       I("addi", "t0", "t0", 4),
       I("j", "41", 0, 0),
       L("40", "addi", "t0", "t0", 2),
       L("41", "csrw", "mepc", "t0", 0),
       I("j", "_trap_return", 0, 0) >>

\* The CFI-violation path with the line feed left out.
handle_cfi_violation_no_lf ==
    << L("_handle_cfi_violation", "li", "t0", UART_BASE[2], 0),
       I("li", "t1", 67, 0),
       I("sb", "t1", 0, "t0"),
       I("li", "t1", 70, 0),
       I("sb", "t1", 0, "t0"),
       I("li", "t1", 73, 0),
       I("sb", "t1", 0, "t0"),
       I("li", "t1", 33, 0),
       I("sb", "t1", 0, "t0"),
       L("50", "wfi", 0, 0, 0),
       I("j", "50", 0, 0) >>

\* CFI violation: write "CFI!\n" to the UART and halt.
handle_cfi_violation ==
    << L("_handle_cfi_violation", "li", "t0", UART_BASE[2], 0),
       I("li", "t1", 67, 0),
       I("sb", "t1", 0, "t0"),
       I("li", "t1", 70, 0),
       I("sb", "t1", 0, "t0"),
       I("li", "t1", 73, 0),
       I("sb", "t1", 0, "t0"),
       I("li", "t1", 33, 0),
       I("sb", "t1", 0, "t0"),
       I("li", "t1", 10, 0),
       I("sb", "t1", 0, "t0"),
       L("50", "wfi", 0, 0, 0),
       I("j", "50", 0, 0) >>

\* The unknown-trap path returning to the interrupted code instead.
handle_unknown_trap_returns ==
    << L("_handle_unknown_trap", "j", "_trap_return", 0, 0) >>

\* Unknown trap: halt.
handle_unknown_trap ==
    << L("_handle_unknown_trap", "wfi", 0, 0, 0),
       I("j", "_handle_unknown_trap", 0, 0) >>

\* Restore the frame and return from the trap.
trap_return ==
    << L("_trap_return", "lw", "ra", 0, "sp"),
       I("lw", "t0", 4, "sp"),
       I("lw", "t1", 8, "sp"),
       I("lw", "t2", 12, "sp"),
       I("lw", "a0", 16, "sp"),
       I("lw", "a1", 20, "sp"),
       I("lw", "a2", 24, "sp"),
       I("lw", "a7", 28, "sp"),
       I("addi", "sp", "sp", 64),
       L("trap_mret", "mret", 0, 0, 0) >>

code_trap_handler ==
    trap_entry \o handle_ecall \o handle_illegal \o handle_cfi_violation
    \o handle_unknown_trap \o trap_return

\* rot_measure_firmware with the end test after the loop body.
code_rot_measure_firmware_test_last ==
    << I("lpad", 0, 0, 0),
       I("sspush", "ra", 0, 0),
       I("addi", "sp", "sp", -16),
       I("sw", "ra", 12, "sp"),
       I("sw", "gp", 8, "sp"),
       I("sw", "ra", 0, "gp"),
       I("addi", "gp", "gp", 4),
       I("li", "a2", 0, 0),
       I("add", "a1", "a0", "a1"),
       L("60", "lw", "t0", 0, "a0"),
       I("xor", "a2", "a2", "t0"),
       I("addi", "a0", "a0", 4),
       I("bne", "a0", "a1", "60"),
       L("61", "mv", "a0", "a2", 0),
       I("addi", "gp", "gp", -4),
       I("lw", "t0", 0, "gp"),
       I("lw", "ra", 12, "sp"),
       I("bne", "t0", "ra", "99"),
       I("lw", "gp", 8, "sp"),
       I("addi", "sp", "sp", 16),
       I("sspopchk", "ra", 0, 0),
       I("ret", 0, 0, 0),
       L("99", "ebreak", 0, 0, 0) >>

\* The word loop with the cursor stepping by 2.
code_rot_measure_firmware_step_2 ==
    << I("lpad", 0, 0, 0),
       I("sspush", "ra", 0, 0),
       I("addi", "sp", "sp", -16),
       I("sw", "ra", 12, "sp"),
       I("sw", "gp", 8, "sp"),
       I("sw", "ra", 0, "gp"),
       I("addi", "gp", "gp", 4),
       I("li", "a2", 0, 0),
       I("add", "a1", "a0", "a1"),
       L("60", "beq", "a0", "a1", "61"),
       I("lw", "t0", 0, "a0"),
       I("xor", "a2", "a2", "t0"),
       I("addi", "a0", "a0", 2),
       I("j", "60", 0, 0),
       L("61", "mv", "a0", "a2", 0),
       I("addi", "gp", "gp", -4),
       I("lw", "t0", 0, "gp"),
       I("lw", "ra", 12, "sp"),
       I("bne", "t0", "ra", "99"),
       I("lw", "gp", 8, "sp"),
       I("addi", "sp", "sp", 16),
       I("sspopchk", "ra", 0, 0),
       I("ret", 0, 0, 0),
       L("99", "ebreak", 0, 0, 0) >>

code_rot_measure_firmware ==
    << I("lpad", 0, 0, 0),
       I("sspush", "ra", 0, 0),
       I("addi", "sp", "sp", -16),
       I("sw", "ra", 12, "sp"),
       I("sw", "gp", 8, "sp"),
       I("sw", "ra", 0, "gp"),
       I("addi", "gp", "gp", 4),
       I("li", "a2", 0, 0),
       I("add", "a1", "a0", "a1"),
       L("60", "beq", "a0", "a1", "61"),
       I("lw", "t0", 0, "a0"),
       I("xor", "a2", "a2", "t0"),
       I("addi", "a0", "a0", 4),
       I("j", "60", 0, 0),
       L("61", "mv", "a0", "a2", 0),
       I("addi", "gp", "gp", -4),
       I("lw", "t0", 0, "gp"),
       I("lw", "ra", 12, "sp"),
       I("bne", "t0", "ra", "99"),
       I("lw", "gp", 8, "sp"),
       I("addi", "sp", "sp", 16),
       I("sspopchk", "ra", 0, 0),
       I("ret", 0, 0, 0),
       L("99", "ebreak", 0, 0, 0) >>

\* rot_seal_secret with an addition in place of the exclusive or.
code_rot_seal_secret_add ==
    << I("lpad", 7, 0, 0),
       I("sspush", "ra", 0, 0),
       I("addi", "sp", "sp", -16),
       I("sw", "ra", 12, "sp"),
       I("sw", "gp", 8, "sp"),
       I("sw", "ra", 0, "gp"),
       I("addi", "gp", "gp", 4),
       I("add", "a0", "a0", "a1"),
       I("addi", "gp", "gp", -4),
       I("lw", "t0", 0, "gp"),
       I("lw", "ra", 12, "sp"),
       I("bne", "t0", "ra", "99"),
       I("lw", "gp", 8, "sp"),
       I("addi", "sp", "sp", 16),
       I("sspopchk", "ra", 0, 0),
       I("ret", 0, 0, 0),
       L("99", "ebreak", 0, 0, 0) >>

code_rot_seal_secret ==
    << I("lpad", 7, 0, 0),
       I("sspush", "ra", 0, 0),
       I("addi", "sp", "sp", -16),
       I("sw", "ra", 12, "sp"),
       I("sw", "gp", 8, "sp"),
       I("sw", "ra", 0, "gp"),
       I("addi", "gp", "gp", 4),
       I("xor", "a0", "a0", "a1"),
       I("addi", "gp", "gp", -4),
       I("lw", "t0", 0, "gp"),
       I("lw", "ra", 12, "sp"),
       I("bne", "t0", "ra", "99"),
       I("lw", "gp", 8, "sp"),
       I("addi", "sp", "sp", 16),
       I("sspopchk", "ra", 0, 0),
       I("ret", 0, 0, 0),
       L("99", "ebreak", 0, 0, 0) >>

\* u_add_100 adding 10.
code_u_add_10 ==
    << I("lpad", 0, 0, 0),
       I("addi", "a0", "a0", 10),
       I("ret", 0, 0, 0) >>

code_u_add_100 ==
    << I("lpad", 0, 0, 0),
       I("addi", "a0", "a0", 100),
       I("ret", 0, 0, 0) >>

\* u_double with the comparison of its epilogue left out.
code_u_double_unchecked ==
    << I("lpad", 0, 0, 0),
       I("sspush", "ra", 0, 0),
       I("addi", "sp", "sp", -16),
       I("sw", "ra", 12, "sp"),
       I("sw", "gp", 8, "sp"),
       I("sw", "ra", 0, "gp"),
       I("addi", "gp", "gp", 4),
       I("slli", "a0", "a0", 1),
       I("addi", "gp", "gp", -4),
       I("lw", "t0", 0, "gp"),
       I("lw", "ra", 12, "sp"),
       I("lw", "gp", 8, "sp"),
       I("addi", "sp", "sp", 16),
       I("sspopchk", "ra", 0, 0),
       I("ret", 0, 0, 0),
       L("99", "ebreak", 0, 0, 0) >>

code_u_double ==
    << I("lpad", 0, 0, 0),
       I("sspush", "ra", 0, 0),
       I("addi", "sp", "sp", -16),
       I("sw", "ra", 12, "sp"),
       I("sw", "gp", 8, "sp"),
       I("sw", "ra", 0, "gp"),
       I("addi", "gp", "gp", 4),
       I("slli", "a0", "a0", 1),
       I("addi", "gp", "gp", -4),
       I("lw", "t0", 0, "gp"),
       I("lw", "ra", 12, "sp"),
       I("bne", "t0", "ra", "99"),
       I("lw", "gp", 8, "sp"),
       I("addi", "sp", "sp", 16),
       I("sspopchk", "ra", 0, 0),
       I("ret", 0, 0, 0),
       L("99", "ebreak", 0, 0, 0) >>

code_u_entry ==
    << I("lpad", 0, 0, 0),
       I("la", "t1", "u_add_100", 0),
       I("li", "a0", 42, 0),
       I("jalr", "ra", "t1", 0),
       I("la", "t1", "u_double", 0),
       I("li", "a0", 25, 0),
       I("jalr", "ra", "t1", 0),
       I("li", "a0", 79, 0),
       I("li", "a7", 0, 0),
       I("ecall", 0, 0, 0),
       I("li", "a0", 75, 0),
       I("li", "a7", 0, 0),
       I("ecall", 0, 0, 0),
       I("li", "a0", 10, 0),
       I("li", "a7", 0, 0),
       I("ecall", 0, 0, 0),
       I("li", "a0", 0, 0),
       I("li", "a7", 2, 0),
       L("exit_ecall", "ecall", 0, 0, 0),
       L("70", "wfi", 0, 0, 0),
       I("j", "70", 0, 0) >>

---------------------------------------------------------------------------
(* The standalone demo image (src/src/main.rs)                             *)
(*                                                                         *)
(* Its _start and _trap_handler carry the prefix "demo." to keep them      *)
(* apart from the kernel's symbols of the same name.                       *)

\* The demo's _start with steps 5 and 6 (the CFI CSR accesses) moved ahead
\* of step 2 (the installation of the trap handler).
demo_code_start_cfi_first ==
    << I("la", "sp", "_stack_top", 0),
       I("li", "t0", 12, 0),
       L("csrs_menvcfg", "csrs", "menvcfg", "t0", 0),
       I("la", "t0", "_shadow_stack_top", 0),
       L("csrw_ssp", "csrw", "ssp", "t0", 0),
       I("la", "t0", "demo._trap_handler", 0),
       I("csrw", "mtvec", "t0", 0),
       I("la", "t0", "_bss_start", 0),
       I("la", "t1", "_bss_end", 0),
       L("1", "beq", "t0", "t1", "2"),
       I("sw", "zero", 0, "t0"),
       I("addi", "t0", "t0", 4),
       I("j", "1", 0, 0),
       L("2", "la", "t0", "_data_start", 0),
       I("la", "t1", "_data_end", 0),
       I("la", "t2", "_data_load", 0),
       L("3", "beq", "t0", "t1", "4"),
       I("lw", "t3", 0, "t2"),
       I("sw", "t3", 0, "t0"),
       I("addi", "t0", "t0", 4),
       I("addi", "t2", "t2", 4),
       I("j", "3", 0, 0),
       L("4", "la", "gp", "_sw_shadow_stack_bottom", 0),
       I("call", "main", 0, 0),
       L("5", "wfi", 0, 0, 0),
       I("j", "5", 0, 0) >>

demo_code_start ==
    << I("la", "sp", "_stack_top", 0),
       I("la", "t0", "demo._trap_handler", 0),
       I("csrw", "mtvec", "t0", 0),
       I("la", "t0", "_bss_start", 0),
       I("la", "t1", "_bss_end", 0),
       L("1", "beq", "t0", "t1", "2"),
       I("sw", "zero", 0, "t0"),
       I("addi", "t0", "t0", 4),
       I("j", "1", 0, 0),
       L("2", "la", "t0", "_data_start", 0),
       I("la", "t1", "_data_end", 0),
       I("la", "t2", "_data_load", 0),
       L("3", "beq", "t0", "t1", "4"),
       I("lw", "t3", 0, "t2"),
       I("sw", "t3", 0, "t0"),
       I("addi", "t0", "t0", 4),
       I("addi", "t2", "t2", 4),
       I("j", "3", 0, 0),
       L("4", "li", "t0", 12, 0),
       L("csrs_menvcfg", "csrs", "menvcfg", "t0", 0),
       I("la", "t0", "_shadow_stack_top", 0),
       L("csrw_ssp", "csrw", "ssp", "t0", 0),
       I("la", "gp", "_sw_shadow_stack_bottom", 0),
       I("call", "main", 0, 0),
       L("5", "wfi", 0, 0, 0),
       I("j", "5", 0, 0) >>

\* The demo's handler without the length test: always skip 4.
demo_code_trap_handler_skip4 ==
    << I("csrr", "t0", "mepc", 0),
       I("addi", "t0", "t0", 4),
       L("7", "csrw", "mepc", "t0", 0),
       L("trap_mret", "mret", 0, 0, 0) >>

\* The demo's handler: every trap is taken to be an illegal instruction and
\* skipped by its length; no register is saved.
demo_code_trap_handler ==
    << I("csrr", "t0", "mepc", 0),
       I("lhu", "t1", 0, "t0"),
       I("andi", "t1", "t1", 3),
       I("li", "t2", 3, 0),
       I("bne", "t1", "t2", "6"),
       I("addi", "t0", "t0", 4),
       I("j", "7", 0, 0),
       L("6", "addi", "t0", "t0", 2),
       L("7", "csrw", "mepc", "t0", 0),
       L("trap_mret", "mret", 0, 0, 0) >>

\* triple with the hardware push after the software push.
code_triple_push_late ==
    << I("lpad", 0, 0, 0),
       I("addi", "sp", "sp", -16),
       I("sw", "ra", 12, "sp"),
       I("sw", "gp", 8, "sp"),
       I("sw", "ra", 0, "gp"),
       I("addi", "gp", "gp", 4),
       I("sspush", "ra", 0, 0),
       I("slli", "t0", "a0", 1),
       I("add", "a0", "t0", "a0"),
       I("addi", "gp", "gp", -4),
       I("lw", "t0", 0, "gp"),
       I("lw", "ra", 12, "sp"),
       I("bne", "t0", "ra", "99"),
       I("lw", "gp", 8, "sp"),
       I("addi", "sp", "sp", 16),
       I("sspopchk", "ra", 0, 0),
       I("ret", 0, 0, 0),
       L("99", "ebreak", 0, 0, 0) >>

code_triple ==
    << I("lpad", 0, 0, 0),
       I("sspush", "ra", 0, 0),
       I("addi", "sp", "sp", -16),
       I("sw", "ra", 12, "sp"),
       I("sw", "gp", 8, "sp"),
       I("sw", "ra", 0, "gp"),
       I("addi", "gp", "gp", 4),
       I("slli", "t0", "a0", 1),
       I("add", "a0", "t0", "a0"),
       I("addi", "gp", "gp", -4),
       I("lw", "t0", 0, "gp"),
       I("lw", "ra", 12, "sp"),
       I("bne", "t0", "ra", "99"),
       I("lw", "gp", 8, "sp"),
       I("addi", "sp", "sp", 16),
       I("sspopchk", "ra", 0, 0),
       I("ret", 0, 0, 0),
       L("99", "ebreak", 0, 0, 0) >>

code_add_42 ==
    << I("lpad", 0, 0, 0),
       I("addi", "a0", "a0", 42),
       I("ret", 0, 0, 0) >>

code_square ==
    << I("lpad", 7, 0, 0),
       I("mul", "a0", "a0", "a0"),
       I("ret", 0, 0, 0) >>

\* call_and_inc with the hardware pop-and-check before the software pop.
code_call_and_inc_pop_first ==
    << I("lpad", 0, 0, 0),
       I("sspush", "ra", 0, 0),
       I("addi", "sp", "sp", -16),
       I("sw", "ra", 12, "sp"),
       I("sw", "gp", 8, "sp"),
       I("sw", "ra", 0, "gp"),
       I("addi", "gp", "gp", 4),
       I("mv", "t1", "a0", 0),
       I("mv", "a0", "a1", 0),
       I("jalr", "ra", "t1", 0),
       I("addi", "a0", "a0", 1),
       I("lw", "ra", 12, "sp"),
       I("sspopchk", "ra", 0, 0),
       I("addi", "gp", "gp", -4),
       I("lw", "t0", 0, "gp"),
       I("bne", "t0", "ra", "99"),
       I("lw", "gp", 8, "sp"),
       I("addi", "sp", "sp", 16),
       I("ret", 0, 0, 0),
       L("99", "ebreak", 0, 0, 0) >>

code_call_and_inc ==
    << I("lpad", 0, 0, 0),
       I("sspush", "ra", 0, 0),
       I("addi", "sp", "sp", -16),
       I("sw", "ra", 12, "sp"),
       I("sw", "gp", 8, "sp"),
       I("sw", "ra", 0, "gp"),
       I("addi", "gp", "gp", 4),
       I("mv", "t1", "a0", 0),
       I("mv", "a0", "a1", 0),
       I("jalr", "ra", "t1", 0),
       I("addi", "a0", "a0", 1),
       I("addi", "gp", "gp", -4),
       I("lw", "t0", 0, "gp"),
       I("lw", "ra", 12, "sp"),
       I("bne", "t0", "ra", "99"),
       I("lw", "gp", 8, "sp"),
       I("addi", "sp", "sp", 16),
       I("sspopchk", "ra", 0, 0),
       I("ret", 0, 0, 0),
       L("99", "ebreak", 0, 0, 0) >>

\* The table with the handlers of ids 1 and 2 exchanged.
DISPATCH_TABLE_exchanged == << <<0, "triple">>, <<1, "square">>, <<2, "add_42">> >>

\* The entries of the static table: id and handler.
DISPATCH_TABLE == << <<0, "triple">>, <<1, "add_42">>, <<2, "square">> >>

\* The word at a byte offset of the table (#[repr(C)]: id at 0, handler
\* at 4 of each 8-byte entry).
DispatchTableWord(off) ==
    IF off % 4 # 0 \/ off < 0 \/ off >= 8 * Len(DISPATCH_TABLE) THEN Unknown
    ELSE IF off % 8 = 0 THEN Abs(DISPATCH_TABLE[off \div 8 + 1][1])
    ELSE <<DISPATCH_TABLE[off \div 8 + 1][2], 0>>

\* dispatch(id = a0, arg = a1), one instruction per step of the Rust
\* function: the loop over the entries, the comparison of the id, the call
\* through the handler pointer. The Option it returns is the tag in a0
\* (1 for Some, 0 for None) and the value in a1; tmp keeps the return
\* address across the call.
code_dispatch ==
    << I("mv", "tmp", "ra", 0),
       I("la", "t3", "DISPATCH_TABLE", 0),
       I("addi", "a2", "t3", 8 * Len(DISPATCH_TABLE)),
       L("next", "beq", "t3", "a2", "none"),
       I("lw", "t0", 0, "t3"),
       I("bne", "t0", "a0", "step"),
       I("lw", "t1", 4, "t3"),
       I("mv", "a0", "a1", 0),
       L("call_handler", "jalr", "ra", "t1", 0),
       I("mv", "a1", "a0", 0),
       I("li", "a0", 1, 0),
       I("mv", "ra", "tmp", 0),
       I("ret", 0, 0, 0),
       L("step", "addi", "t3", "t3", 8),
       I("j", "next", 0, 0),
       L("none", "li", "a0", 0, 0),
       I("mv", "ra", "tmp", 0),
       I("ret", 0, 0, 0) >>

\* One round of the loop of Test 3: dispatch(id, 6) and, if it is Some, the
\* line with the id and the result.
dispatch_round(id, line, label, next) ==
    << L(label, "li", "s1", id, 0),
       I("mv", "a0", "s1", 0),
       I("li", "a1", 6, 0),
       I("call", "dispatch", 0, 0),
       I("beqz", "a0", next, 0),
       I("puts", 436, 0, 0),
       I("dec", "s1", 0, 0),
       I("puts", 438, 0, 0),
       I("dec", "a1", 0, 0),
       I("puts", line, 0, 0),
       I("puts", 446, 0, 0) >>

\* main, one instruction per call and per UART statement.
code_main ==
    << I("puts", 388, 0, 0),
       I("puts", 389, 0, 0),
       I("puts", 390, 0, 0),
       I("puts", 391, 0, 0),
       I("puts", 394, 0, 0),
       I("li", "a0", 7, 0),
       I("call", "triple", 0, 0),
       I("puts", 397, 0, 0),
       I("dec", "a0", 0, 0),
       I("puts", 399, 0, 0),
       I("li", "a0", 8, 0),
       I("call", "add_42", 0, 0),
       I("puts", 402, 0, 0),
       I("dec", "a0", 0, 0),
       I("puts", 404, 0, 0),
       I("li", "a0", 5, 0),
       I("call", "square", 0, 0),
       I("puts", 407, 0, 0),
       I("dec", "a0", 0, 0),
       I("puts", 409, 0, 0),
       I("puts", 411, 0, 0),
       I("puts", 414, 0, 0),
       I("puts", 415, 0, 0),
       I("la", "t1", "triple", 0),
       I("li", "a0", 10, 0),
       I("jalr", "ra", "t1", 0),
       I("puts", 419, 0, 0),
       I("dec", "a0", 0, 0),
       I("puts", 421, 0, 0),
       I("la", "t1", "add_42", 0),
       I("li", "a0", 0, 0),
       I("jalr", "ra", "t1", 0),
       I("puts", 425, 0, 0),
       I("dec", "a0", 0, 0),
       I("puts", 427, 0, 0),
       I("puts", 429, 0, 0),
       I("puts", 432, 0, 0) >>
    \o dispatch_round(0, 441, "round0", "round1")
    \o dispatch_round(1, 442, "round1", "round2")
    \o dispatch_round(2, 443, "round2", "round3") \o
    << L("round3", "puts", 450, 0, 0),
       I("puts", 453, 0, 0),
       I("la", "a0", "triple", 0),
       I("li", "a1", 4, 0),
       I("call", "call_and_inc", 0, 0),
       I("puts", 456, 0, 0),
       I("dec", "a0", 0, 0),
       I("puts", 458, 0, 0),
       I("la", "a0", "add_42", 0),
       I("li", "a1", 0, 0),
       I("call", "call_and_inc", 0, 0),
       I("puts", 461, 0, 0),
       I("dec", "a0", 0, 0),
       I("puts", 463, 0, 0),
       I("puts", 465, 0, 0),
       I("puts", 468, 0, 0),
       I("mv", "a0", "gp", 0),
       I("puts", 472, 0, 0),
       I("hex32", 473, 0, 0),
       I("puts", 474, 0, 0),
       I("puts", 476, 0, 0),
       I("puts", 478, 0, 0),
       I("puts", 481, 0, 0),
       I("puts", 482, 0, 0),
       I("puts", 483, 0, 0),
       I("puts", 484, 0, 0),
       I("puts", 485, 0, 0),
       I("puts", 486, 0, 0),
       I("puts", 487, 0, 0),
       I("puts", 488, 0, 0),
       I("li", "t0", TEST_FINISHER[2], 0),
       I("li", "t1", 21845, 0),
       I("sw", "t1", 0, "t0"),
       L("halt", "wfi", 0, 0, 0),
       I("j", "halt", 0, 0) >>

\* The instructions of each function of the image.
Code(fn) ==
    CASE fn = "_start" -> code_start
      [] fn = "rot_main" -> code_rot_main
      [] fn = "_trap_handler" -> code_trap_handler
      [] fn = "rot_measure_firmware" -> code_rot_measure_firmware
      [] fn = "rot_seal_secret" -> code_rot_seal_secret
      [] fn = "u_add_100" -> code_u_add_100
      [] fn = "u_double" -> code_u_double
      [] fn = "_u_entry" -> code_u_entry
      [] fn = "demo._start" -> demo_code_start
      [] fn = "demo._trap_handler" -> demo_code_trap_handler
      [] fn = "main" -> code_main
      [] fn = "triple" -> code_triple
      [] fn = "add_42" -> code_add_42
      [] fn = "square" -> code_square
      [] fn = "call_and_inc" -> code_call_and_inc
      [] fn = "dispatch" -> code_dispatch
      [] OTHER -> << >>

\* The pc of the instruction of fn that carries a label.
LabelPc(fn, label) ==
    <<fn, 4 * ((CHOOSE i \in 1..Len(Code(fn)) : Code(fn)[i][1] = label) - 1)>>

---------------------------------------------------------------------------
(* Instruction execution                                                   *)

NoIns == <<"", "none", 0, 0, 0>>

\* The instruction at a code address, NoIns where the source defines none.
InsAt(a) ==
    IF a[2] >= 0 /\ a[2] % 4 = 0 /\ a[2] \div 4 < Len(Code(a[1]))
    THEN Code(a[1])[a[2] \div 4 + 1]
    ELSE NoIns

Ins == InsAt(pc)

Op == Ins[2]

NextPc == Off(pc, 4)

RegNames ==
    {"zero", "ra", "sp", "gp", "t0", "t1", "t2", "t3", "a0", "a1", "a2", "a7",
     "s1", "s2", "bits", "tmp"}

SetReg(r, v) == IF r = "zero" THEN regs ELSE [regs EXCEPT ![r] = v]

\* The low halfword of an instruction's encoding. The system instructions
\* (opcode 0x73) and lpad (opcode 0x17) are 32-bit encodings, low bits 11.
InsnLow16(ins) ==
    CASE ins[2] \in {"csrw"} -> Abs(4211)
      [] ins[2] \in {"csrs", "csrr"} -> Abs(8307)
      [] ins[2] \in {"ecall", "ebreak", "mret", "wfi", "sspush", "sspopchk"} -> Abs(115)
      [] ins[2] = "lpad" -> Abs(4096 * (ins[3] % 16) + 23)
      [] OTHER -> Unknown

\* What a load from an address returns: the encoding of an instruction,
\* what was last stored, or a word of the load image of .data.
Load(a) ==
    IF Code(a[1]) # << >> THEN InsnLow16(InsAt(a))
    ELSE IF a \in DOMAIN mem THEN mem[a]
    ELSE IF a[1] \in {"_m_data_load", "_data_load"} THEN <<"data_word", a[2]>>
    ELSE IF a[1] = "DISPATCH_TABLE" THEN DispatchTableWord(a[2])
    ELSE Unknown

VAddImm(v, n) ==
    IF v[1] \in {"unknown", "mstatus"} THEN Unknown
    ELSE IF v[1] = "abs" THEN Abs(WrapAdd(v[2], n))
    ELSE Off(v, n)

\* Which CSRs an access at the current privilege reaches.
CsrExists(c) ==
    CASE c = "menvcfg" -> hw.menvcfg
      [] c = "senvcfg" -> hw.senvcfg
      [] c = "ssp" -> hw.ssp
      [] OTHER -> TRUE

CsrAccessible(c) == CsrExists(c) /\ (priv = "M" \/ c = "ssp")

\* Instruction fetch is checked against the PMP like any other access.
FetchAllowed == PmpAllows(priv, Phys(pc), "X")

\* Trap entry that records machine mode whatever mode it interrupts.
TakeTrap_from_machine(cause) ==
    /\ csr' = [csr EXCEPT !.mepc = pc,
                          !.mcause = Abs(cause),
                          !.mstatus = <<"mstatus", 3>>]
    /\ priv' = "M"
    /\ pc' = csr.mtvec
    /\ UNCHANGED <<hw, regs, pmpaddr, pmpcfg, mem, uart, finisher>>

\* Trap entry: mepc, mcause and mstatus.MPP record the interrupted context
\* and the hart enters the handler at mtvec in machine mode.
TakeTrap(cause) ==
    /\ csr' = [csr EXCEPT !.mepc = pc,
                          !.mcause = Abs(cause),
                          !.mstatus = <<"mstatus", IF priv = "M" THEN 3 ELSE 0>>]
    /\ priv' = "M"
    /\ pc' = csr.mtvec
    /\ UNCHANGED <<hw, regs, pmpaddr, pmpcfg, mem, uart, finisher>>

\* la, li and the register-to-register arithmetic.
AluResult ==
    CASE Op = "la" -> Sym(Ins[4])
      [] Op = "li" -> Abs(Ins[4])
      [] Op = "mv" -> regs[Ins[4]]
      [] Op = "addi" -> VAddImm(regs[Ins[4]], Ins[5])
      [] Op = "andi" -> VAnd(regs[Ins[4]], Abs(Ins[5]))
      [] Op = "slli" -> VSll(regs[Ins[4]], Ins[5])
      [] Op = "add" -> VAdd(regs[Ins[4]], regs[Ins[5]])
      [] Op = "xor" -> VXor(regs[Ins[4]], regs[Ins[5]])
      [] Op = "and" -> VAnd(regs[Ins[4]], regs[Ins[5]])
      [] Op = "mul" -> VMul(regs[Ins[4]], regs[Ins[5]])

Exec_alu ==
    /\ Op \in {"la", "li", "mv", "addi", "andi", "slli", "add", "xor", "and", "mul"}
    /\ IF ~FetchAllowed THEN TakeTrap(1)
       ELSE /\ regs' = SetReg(Ins[3], AluResult)
            /\ pc' = NextPc
            /\ UNCHANGED <<hw, priv, csr, pmpaddr, pmpcfg, mem, uart, finisher>>

\* lw rd, imm(rs) and lhu, lb.
Exec_load ==
    /\ Op \in {"lw", "lhu", "lb"}
    /\ LET a == Off(regs[Ins[5]], Ins[4])
       IN  IF ~FetchAllowed THEN TakeTrap(1)
           ELSE IF ~PmpAllows(priv, Phys(a), "R") THEN TakeTrap(5)
           ELSE /\ regs' = SetReg(Ins[3], Load(a))
                /\ pc' = NextPc
                /\ UNCHANGED <<hw, priv, csr, pmpaddr, pmpcfg, mem, uart, finisher>>

\* The byte a store to the UART data register transmits.
UartByte(v) == <<"byte", IF v[1] = "abs" THEN v[2] % 256 ELSE -1>>

\* sw rs2, imm(rs) and sb: to the UART, to the test finisher or to RAM.
Exec_store ==
    /\ Op \in {"sw", "sb"}
    /\ LET a == Off(regs[Ins[5]], Ins[4])
           v == regs[Ins[3]]
       IN  IF ~FetchAllowed THEN TakeTrap(1)
           ELSE IF ~PmpAllows(priv, Phys(a), "W") THEN TakeTrap(7)
           ELSE /\ uart' = IF a = UART_BASE THEN Append(uart, UartByte(v)) ELSE uart
                /\ finisher' = IF a = TEST_FINISHER THEN Append(finisher, v) ELSE finisher
                /\ mem' = IF a \in {UART_BASE, TEST_FINISHER} THEN mem
                          ELSE [x \in DOMAIN mem \cup {a} |-> IF x = a THEN v ELSE mem[x]]
                /\ pc' = NextPc
                /\ UNCHANGED <<hw, priv, regs, csr, pmpaddr, pmpcfg>>

BranchTaken ==
    CASE Op = "beq" -> regs[Ins[3]] = regs[Ins[4]]
      [] Op = "bne" -> regs[Ins[3]] # regs[Ins[4]]
      [] Op = "beqz" -> regs[Ins[3]] = Abs(0)

\* beq rs1, rs2, label; bne rs1, rs2, label; beqz rs, label.
Exec_branch ==
    /\ Op \in {"beq", "bne", "beqz"}
    /\ IF ~FetchAllowed THEN TakeTrap(1)
       ELSE /\ pc' = IF BranchTaken
                     THEN LabelPc(pc[1], IF Op = "beqz" THEN Ins[4] ELSE Ins[5])
                     ELSE NextPc
            /\ UNCHANGED <<hw, priv, regs, csr, pmpaddr, pmpcfg, mem, uart, finisher>>

\* j label; call function; jalr rd, rs, imm; ret.
Exec_jump ==
    /\ Op \in {"j", "call", "jalr", "ret"}
    /\ IF ~FetchAllowed THEN TakeTrap(1)
       ELSE /\ pc' = CASE Op = "j" -> LabelPc(pc[1], Ins[3])
                       [] Op = "call" -> <<Ins[3], 0>>
                       [] Op = "jalr" -> Off(regs[Ins[4]], Ins[5])
                       [] Op = "ret" -> regs["ra"]
            /\ regs' = CASE Op = "call" -> SetReg("ra", NextPc)
                         [] Op = "jalr" -> SetReg(Ins[3], NextPc)
                         [] OTHER -> regs
            /\ UNCHANGED <<hw, priv, csr, pmpaddr, pmpcfg, mem, uart, finisher>>

\* csrr rd, csr; csrw csr, rs; csrs csr, rs. An access to a CSR the hart does
\* not implement raises an illegal-instruction exception.
Exec_csr ==
    /\ Op \in {"csrr", "csrw", "csrs"}
    /\ LET c == IF Op = "csrr" THEN Ins[4] ELSE Ins[3]
       IN  IF ~FetchAllowed THEN TakeTrap(1)
           ELSE IF ~CsrAccessible(c) THEN TakeTrap(2)
           ELSE /\ regs' = IF Op = "csrr" THEN SetReg(Ins[3], csr[c]) ELSE regs
                /\ csr' = CASE Op = "csrw" -> [csr EXCEPT ![c] = regs[Ins[4]]]
                            [] Op = "csrs" -> [csr EXCEPT ![c] = VOr(csr[c], regs[Ins[4]])]
                            [] OTHER -> csr
                /\ pc' = NextPc
                /\ UNCHANGED <<hw, priv, pmpaddr, pmpcfg, mem, uart, finisher>>

\* csrw pmpaddr(i) and csrw pmpcfg(r) with the operand configure_pmp computed.
Exec_pmp ==
    /\ Op \in {"csrw_pmpaddr", "csrw_pmpcfg"}
    /\ IF ~FetchAllowed THEN TakeTrap(1)
       ELSE IF priv # "M" THEN TakeTrap(2)
       ELSE /\ pmpaddr' = IF Op = "csrw_pmpaddr" THEN PmpAddrWrite(Ins[3], Ins[4])
                          ELSE pmpaddr
            /\ pmpcfg' = IF Op = "csrw_pmpcfg" THEN PmpCfgWrite(Ins[3], Ins[4])
                         ELSE pmpcfg
            /\ pc' = NextPc
            /\ UNCHANGED <<hw, priv, regs, csr, mem, uart, finisher>>

\* mret: privilege becomes mstatus.MPP, MPP becomes U, pc becomes mepc. In
\* user mode mret is an illegal instruction.
Exec_mret ==
    /\ Op = "mret"
    /\ IF ~FetchAllowed THEN TakeTrap(1)
       ELSE IF priv # "M" THEN TakeTrap(2)
       ELSE /\ priv' = IF csr.mstatus[2] = 3 THEN "M" ELSE "U"
            /\ pc' = csr.mepc
            /\ csr' = [csr EXCEPT !.mstatus = <<"mstatus", 0>>]
            /\ UNCHANGED <<hw, regs, pmpaddr, pmpcfg, mem, uart, finisher>>

\* ecall raises cause 8 from user mode and 11 from machine mode; ebreak
\* raises the breakpoint exception, cause 3.
Exec_ecall ==
    /\ Op \in {"ecall", "ebreak"}
    /\ IF ~FetchAllowed THEN TakeTrap(1)
       ELSE TakeTrap(CASE Op = "ebreak" -> 3
                       [] priv = "U" -> 8
                       [] OTHER -> 11)

\* With no interrupt enabled wfi retires like a nop (or never completes).
Exec_wfi ==
    /\ Op = "wfi"
    /\ IF ~FetchAllowed THEN TakeTrap(1)
       ELSE /\ pc' = NextPc
            /\ UNCHANGED <<hw, priv, regs, csr, pmpaddr, pmpcfg, mem, uart, finisher>>

\* lpad, sspush and sspopchk: encoded in the may-be-operation space, they
\* retire without architectural effect for a conforming call and return.
Exec_cfi ==
    /\ Op \in {"lpad", "sspush", "sspopchk"}
    /\ IF ~FetchAllowed THEN TakeTrap(1)
       ELSE /\ pc' = NextPc
            /\ UNCHANGED <<hw, priv, regs, csr, pmpaddr, pmpcfg, mem, uart, finisher>>

\* The number uart_put_dec prints, -1 where the value is not a known number.
DecValue(v) == IF v[1] = "abs" THEN v[2] ELSE -1

\* uart_puts(..) and uart_put_hex32(..) of the Rust code, by source line,
\* and uart_put_dec(..) with the value it prints.
Exec_uart ==
    /\ Op \in {"puts", "hex32", "dec"}
    /\ IF ~FetchAllowed THEN TakeTrap(1)
       ELSE /\ uart' = Append(uart, IF Op = "dec" THEN <<Op, DecValue(regs[Ins[3]])>>
                                    ELSE <<Op, Ins[3]>>)
            /\ pc' = NextPc
            /\ UNCHANGED <<hw, priv, regs, csr, pmpaddr, pmpcfg, mem, finisher>>

---------------------------------------------------------------------------
(* The system                                                              *)

\* Reset: machine mode at _start, PMP entries off and unlocked. The hart may
\* or may not implement each of menvcfg, senvcfg and ssp, and mstatus.MPP is
\* not determined by reset.
Init ==
    /\ hw \in [menvcfg : BOOLEAN, senvcfg : BOOLEAN, ssp : BOOLEAN]
    /\ pc = <<"_start", 0>>
    /\ priv = "M"
    /\ regs = [r \in RegNames |-> IF r = "zero" THEN Abs(0) ELSE <<r, 0>>]
    /\ \E mpp \in {0, 3} :
          csr = [mstatus |-> <<"mstatus", mpp>>, mepc |-> <<"mepc", 0>>,
                 mcause |-> Abs(0), mtvec |-> <<"mtvec", 0>>,
                 menvcfg |-> Abs(0), senvcfg |-> Abs(0), ssp |-> Abs(0)]
    /\ pmpaddr = [i \in PmpEntries |-> {}]
    /\ pmpcfg = [r \in 0..3 |-> {}]
    /\ mem = [a \in {} |-> Unknown]
    /\ uart = << >>
    /\ finisher = << >>

Next ==
    \/ Exec_alu
    \/ Exec_load
    \/ Exec_store
    \/ Exec_branch
    \/ Exec_jump
    \/ Exec_csr
    \/ Exec_pmp
    \/ Exec_mret
    \/ Exec_ecall
    \/ Exec_wfi
    \/ Exec_cfi
    \/ Exec_uart

Spec == Init /\ [][Next]_vars

\* The hart never stops fetching: whenever an instruction can execute, one
\* eventually does.
FairSpec == Init /\ [][Next]_vars /\ WF_vars(Next)

\* The values configure_pmp writes to pmpaddr0-7 and pmpcfg0-1; the other
\* registers keep their reset value.
ProgrammedPmpAddr ==
    [i \in PmpEntries |->
        IF i <= 7 THEN pmp_napot_addr(pmp_args(i)[1], pmp_args(i)[2]) ELSE {}]

ProgrammedPmpCfg ==
    [r \in 0..3 |-> CASE r = 0 -> pmpcfg0_value [] r = 1 -> pmpcfg1_value [] OTHER -> {}]

---------------------------------------------------------------------------
(* Traps taken by arbitrary user firmware, and by arbitrary instruction    *)
(* bytes                                                                   *)
(*                                                                         *)
(* User firmware is untrusted: it may execute ecall with any registers and *)
(* may jump to bytes that are no instruction, in its code region (u_blob)  *)
(* or in its data (u_buf).                                                 *)

\* A fetch of bytes that decode to no instruction: illegal instruction,
\* or an access fault where the PMP denies the fetch.
Exec_illegal ==
    /\ Ins = NoIns
    /\ pc \in DOMAIN mem
    /\ IF ~FetchAllowed THEN TakeTrap(1) ELSE TakeTrap(2)

\* Halfwords at the trapping pc: each value of the low two bits, under
\* small and large upper bits, and two real encodings (0x0073, 0x9002).
Halfwords == {0, 1, 2, 3, 115, 36866, 65532, 65533, 65534, 65535}

\* Byte offsets of the trapping pc within u_blob.
BlobOffsets == {0, 2, 6}

\* Trap causes the handler has no case for, and its two CFI causes.
OtherCauses == {0, 3, 4, 5, 7, 9, 11, 17, 19}

CfiCauses == {1, 18}

\* The bytes of the user's buffer u_buf: 'A', 'B', ...
UserBuffer == [a \in {<<"u_buf", k>> : k \in 0..(MaxBytes + 1)} |-> Abs(65 + a[2])]

\* The registers of user firmware: sp and gp as the launcher set them,
\* every other register an unknown value of its own.
UserRegs ==
    [r \in RegNames |->
        CASE r = "zero" -> Abs(0)
          [] r = "sp" -> <<"_u_stack_top", 0>>
          [] r = "gp" -> <<"_u_sw_shadow_stack_bottom", 0>>
          [] OTHER -> <<r, 0>>]

\* The machine as launch_umode leaves it, the PMP programmed.
Launched ==
    /\ hw = [menvcfg |-> TRUE, senvcfg |-> TRUE, ssp |-> TRUE]
    /\ pmpaddr = ProgrammedPmpAddr
    /\ pmpcfg = ProgrammedPmpCfg
    /\ uart = << >>
    /\ finisher = << >>

LaunchedCsr ==
    [mstatus |-> <<"mstatus", 0>>, mepc |-> <<"_u_entry", 0>>,
     mcause |-> Abs(0), mtvec |-> <<"_trap_handler", 0>>,
     menvcfg |-> Abs(12), senvcfg |-> Abs(12), ssp |-> <<"_u_shadow_stack_top", 0>>]

\* The pc of the ecall user firmware executes.
EcallPc == LabelPc("_u_entry", "exit_ecall")

\* Bytes the kernel keeps in its .data: 'S', 'T', ...
KernelData == [a \in {<<"_m_data_start", k>> : k \in 0..(MaxBytes + 1)} |-> Abs(83 + a[2])]

\* The syscall numbers user firmware may pass: the four the handler knows,
\* the next one and 0xFFFF_FFFF.
SyscallNumbers == (0..4) \cup {-1}

\* The pointers user firmware may pass: small numbers, its own buffer, the
\* kernel's .data and a word of its own stack, 48 bytes below sp.
SyscallPointers ==
    {Abs(0), Abs(79), <<"u_buf", 0>>, <<"u_buf", 1>>, <<"_m_data_start", 0>>,
     <<"_u_stack_top", -48>>}

\* User mode at an ecall with any syscall number, pointer and length; t3,
\* s1 and s2 keep the firmware's copies of a7, a0 and a1.
SyscallInit ==
    /\ Launched
    /\ priv = "U"
    /\ pc = EcallPc
    /\ csr = LaunchedCsr
    /\ mem = UserBuffer @@ KernelData
    /\ \E n \in SyscallNumbers, p \in SyscallPointers, len \in 0..MaxBytes :
          regs = [UserRegs EXCEPT !["a7"] = Abs(n), !["a0"] = p, !["a1"] = Abs(len),
                                  !["t3"] = Abs(n), !["s1"] = p, !["s2"] = Abs(len)]

\* User mode at bytes that are no instruction: in its code region at every
\* alignment and halfword value, or in its data buffer.
IllegalInit ==
    /\ Launched
    /\ priv = "U"
    /\ csr = LaunchedCsr
    /\ regs = UserRegs
    /\ \/ \E o \in BlobOffsets, h \in Halfwords :
             /\ pc = <<"u_blob", o>>
             /\ mem = [a \in {pc} |-> Abs(h)]
       \/ /\ pc = <<"u_buf", 0>>
          /\ mem = UserBuffer

\* The kernel's handler entered on a trap of some other cause, from user
\* firmware or from the kernel inside rot_measure_firmware.
TrapEntryInit ==
    /\ Launched
    /\ priv = "M"
    /\ pc = <<"_trap_handler", 0>>
    /\ mem = UserBuffer
    /\ \E c \in OtherCauses \cup CfiCauses :
          \/ /\ csr = [LaunchedCsr EXCEPT !.mcause = Abs(c), !.mepc = <<"u_double", 0>>]
             /\ regs = UserRegs
          \/ /\ csr = [LaunchedCsr EXCEPT !.mcause = Abs(c), !.mstatus = <<"mstatus", 3>>,
                                          !.mepc = <<"rot_measure_firmware", 0>>]
             /\ regs = [UserRegs EXCEPT !["sp"] = <<"_m_stack_top", 0>>,
                                        !["gp"] = <<"_m_sw_shadow_stack_bottom", 0>>]

\* The demo, booted, at bytes that are no instruction.
DemoIllegalInit ==
    /\ hw = [menvcfg |-> TRUE, senvcfg |-> TRUE, ssp |-> TRUE]
    /\ priv = "M"
    /\ csr = [LaunchedCsr EXCEPT !.mstatus = <<"mstatus", 3>>, !.mepc = <<"mepc", 0>>,
                                 !.mtvec = <<"demo._trap_handler", 0>>,
                                 !.ssp = <<"_shadow_stack_top", 0>>]
    /\ regs = [UserRegs EXCEPT !["sp"] = <<"_stack_top", 0>>,
                               !["gp"] = <<"_sw_shadow_stack_bottom", 0>>]
    /\ pmpaddr = [i \in PmpEntries |-> {}]
    /\ pmpcfg = [r \in 0..3 |-> {}]
    /\ uart = << >>
    /\ finisher = << >>
    /\ \E o \in BlobOffsets, h \in Halfwords :
          /\ pc = <<"demo.blob", o>>
          /\ mem = [a \in {pc} |-> Abs(h)]

TrapInit == SyscallInit \/ IllegalInit \/ TrapEntryInit \/ DemoIllegalInit

TrapNext ==
    \/ Exec_alu
    \/ Exec_load
    \/ Exec_store
    \/ Exec_branch
    \/ Exec_jump
    \/ Exec_csr
    \/ Exec_mret
    \/ Exec_ecall
    \/ Exec_wfi
    \/ Exec_illegal

TrapSpec == TrapInit /\ [][TrapNext]_vars

\* The hart never stops fetching.
TrapFairSpec == TrapInit /\ [][TrapNext]_vars /\ WF_vars(TrapNext)

---------------------------------------------------------------------------
(* Fault injection: the saved return address is overwritten                *)

\* The non-leaf CFI-protected routines of the kernel image.
ProtectedRoutines == {"rot_measure_firmware", "rot_seal_secret", "u_double"}

\* The byte offset in a routine of its first instruction with the given
\* opcode and operands.
InsOffset(fn, op, a, b) ==
    4 * ((CHOOSE i \in 1..Len(Code(fn)) :
             /\ Code(fn)[i][2] = op /\ Code(fn)[i][3] = a /\ Code(fn)[i][4] = b
             /\ \A j \in 1..(i - 1) :
                   ~(Code(fn)[j][2] = op /\ Code(fn)[j][3] = a /\ Code(fn)[j][4] = b)) - 1)

\* pc is after the prologue's `sw ra, 12(sp)` and not after the epilogue's
\* `lw ra, 12(sp)`.
InFrame ==
    /\ pc[1] \in ProtectedRoutines
    /\ pc[2] > InsOffset(pc[1], "sw", "ra", 12)
    /\ pc[2] <= InsOffset(pc[1], "lw", "ra", 12)

\* What the saved word is overwritten with: an address outside the image,
\* or one a few instructions past the true return address.
CorruptValues(ra) == {<<"evil", 0>>, Off(ra, 8)}

\* The word at 12(sp) is overwritten with a different value; nothing else,
\* the software shadow stack included, changes.
CorruptSavedRa ==
    /\ InFrame
    /\ Load(Off(regs["sp"], 12)) = regs["ra"]
    /\ \E v \in CorruptValues(regs["ra"]) :
          mem' = [mem EXCEPT ![Off(regs["sp"], 12)] = v]
    /\ UNCHANGED <<hw, pc, priv, regs, csr, pmpaddr, pmpcfg, uart, finisher>>

FaultNext == Next \/ CorruptSavedRa

FaultSpec == Init /\ [][FaultNext]_vars

\* Reset of the standalone demo image.
DemoInit ==
    /\ hw \in [menvcfg : BOOLEAN, senvcfg : BOOLEAN, ssp : BOOLEAN]
    /\ pc = <<"demo._start", 0>>
    /\ priv = "M"
    /\ regs = [r \in RegNames |-> IF r = "zero" THEN Abs(0) ELSE <<r, 0>>]
    /\ \E mpp \in {0, 3} :
          csr = [mstatus |-> <<"mstatus", mpp>>, mepc |-> <<"mepc", 0>>,
                 mcause |-> Abs(0), mtvec |-> <<"mtvec", 0>>,
                 menvcfg |-> Abs(0), senvcfg |-> Abs(0), ssp |-> Abs(0)]
    /\ pmpaddr = [i \in PmpEntries |-> {}]
    /\ pmpcfg = [r \in 0..3 |-> {}]
    /\ mem = [a \in {} |-> Unknown]
    /\ uart = << >>
    /\ finisher = << >>

\* Either image, from reset.
BootInit == Init \/ DemoInit

BootSpec == BootInit /\ [][Next]_vars

---------------------------------------------------------------------------
(* The memory map, and the addresses at which protection is examined       *)

\* The memory map of the kernel, in the order of the PMP entries: base, size
\* in bytes, and the accesses user mode is meant to have.
MemoryRegions ==
    << [name |-> "ROM", base |-> HiLo(\h8000, \h0000), size |-> U32(64 * 1024),
        user |-> {}],
       [name |-> "M_RAM", base |-> HiLo(\h8001, \h0000), size |-> U32(32 * 1024),
        user |-> {}],
       [name |-> "M_SHADOW", base |-> HiLo(\h8001, \h8000), size |-> U32(8 * 1024),
        user |-> {}],
       [name |-> "U_CODE", base |-> HiLo(\h8002, \h0000), size |-> U32(128 * 1024),
        user |-> {"R", "X"}],
       [name |-> "U_RODATA", base |-> HiLo(\h8004, \h0000), size |-> U32(32 * 1024),
        user |-> {"R"}],
       [name |-> "U_RAM", base |-> HiLo(\h8004, \h8000), size |-> U32(64 * 1024),
        user |-> {"R", "W"}],
       [name |-> "U_SHADOW", base |-> HiLo(\h8005, \h8000), size |-> U32(8 * 1024),
        user |-> {"R", "W"}],
       [name |-> "UART", base |-> HiLo(\h1000, \h0000), size |-> U32(4 * 1024),
        user |-> {"R", "W"}] >>

\* base <= a < base + size.
InRegion(a, r) == ~Less32(a, r.base) /\ Less32(a, Add32(r.base, r.size))

InNoRegion(a) == \A k \in 1..Len(MemoryRegions) : ~InRegion(a, MemoryRegions[k])

\* The first and last address of a range, and their outer neighbours.
Edges(lo, hi) == {lo, wrapping_sub_1(lo), hi, wrapping_add_1(hi)}

\* The addresses at which the match of entry i can change, whatever its
\* mode: the edges of its NAPOT range and of its TOR bound or NA4 word.
EntryEdges(i) ==
    LET p == pmpaddr[i]
        lo == {b \in NapotBase(p) : b <= 31}
        hi == lo \cup {b \in 0..31 : b < NapotSizeLog2(p)}
        t == Shl(p, 2)
    IN  Edges(lo, hi) \cup Edges(t, t \cup {0, 1})

\* Between two neighbouring edges every entry's match, and membership of
\* every region, is constant; so what holds at these addresses holds at all.
ProbeAddrs ==
    {{}, 0..31}
    \cup UNION {Edges(MemoryRegions[k].base,
                      wrapping_sub_1(Add32(MemoryRegions[k].base, MemoryRegions[k].size)))
                : k \in 1..Len(MemoryRegions)}
    \cup UNION {EntryEdges(i) : i \in PmpEntries}

\* The accesses the PMP grants user mode at address a.
UserMay(a) == {acc \in {"R", "W", "X"} : PmpAllows("U", a, acc)}

Last(s) == s[Len(s)]

\* configure_pmp has run to its end: its last message is on the UART.
ConfigurePmpDone == \E k \in 1..Len(uart) : uart[k] = <<"puts", 232>>

\* The csrw to pmpcfg0 has executed.
PmpCfg0Written ==
    \/ ConfigurePmpDone
    \/ /\ pc[1] = "rot_main"
       /\ pc[2] > LabelPc("rot_main", "csrw_pmpcfg0")[2]
       /\ pc[2] <= LabelPc("rot_main", "configure_pmp_end")[2]

---------------------------------------------------------------------------
(* Memory protection                                                       *)

\* C1: once configure_pmp has run, user mode is granted neither read nor
\* write nor instruction fetch at any address of kernel RAM
\* [0x8001_0000, 0x8001_8000) or of the kernel shadow stacks
\* [0x8001_8000, 0x8001_A000).
C1_KernelDataDeniedToUser ==
    ConfigurePmpDone =>
        \A a \in ProbeAddrs :
            (InRegion(a, MemoryRegions[2]) \/ InRegion(a, MemoryRegions[3]))
                => UserMay(a) = {}

\* User code runs under the configured PMP, and both regions are probed.
C1_Witness ==
    /\ ConfigurePmpDone
    /\ priv = "U"
    /\ pc[1] = "u_double"
    /\ \E a, b \in ProbeAddrs : InRegion(a, MemoryRegions[2]) /\ InRegion(b, MemoryRegions[3])

\* C2: once configure_pmp has run, no byte of the kernel code region
\* [0x8000_0000, 0x8001_0000) is readable, writable or executable from user
\* mode.
C2_KernelCodeDeniedToUser ==
    ConfigurePmpDone =>
        \A a \in ProbeAddrs : InRegion(a, MemoryRegions[1]) => UserMay(a) = {}

\* C3: once configure_pmp has run, every address outside the eight regions
\* is denied to user mode, and every address user mode can access lies in a
\* region the memory map makes user-accessible; entries 8-15 stay zero and
\* no programmed entry matches an address outside its region.
C3_UserAccessWithinUserRegions ==
    ConfigurePmpDone =>
        /\ \A a \in ProbeAddrs : InNoRegion(a) => UserMay(a) = {}
        /\ \A a \in ProbeAddrs :
              UserMay(a) # {} =>
                  \E k \in 1..Len(MemoryRegions) :
                      MemoryRegions[k].user # {} /\ InRegion(a, MemoryRegions[k])
        /\ \A i \in 8..15 : pmpaddr[i] = {} /\ PmpCfgByte(i) = {}
        /\ \A i \in 0..7 : \A a \in ProbeAddrs :
              PmpMatch(i, a) => InRegion(a, MemoryRegions[i + 1])

\* C4: once configure_pmp has run, at no address does the first matching
\* entry grant user mode both write and execute, and no configuration byte
\* of entries 0-7 has both W and X set.
C4_UserWriteXorExecute ==
    ConfigurePmpDone =>
        /\ \A a \in ProbeAddrs : ~({"W", "X"} \subseteq UserMay(a))
        /\ \A i \in 0..7 : ~({PermBit("W"), PermBit("X")} \subseteq PmpCfgByte(i))

\* User code runs while some address is user-writable and another is
\* user-executable.
C4_Witness ==
    /\ ConfigurePmpDone
    /\ priv = "U"
    /\ pc[1] = "_u_entry"
    /\ \E a, b \in ProbeAddrs : "W" \in UserMay(a) /\ "X" \in UserMay(b)

\* C5: from the write of pmpcfg0 on, no store to the kernel code region is
\* permitted from machine mode or from user mode, and entry 0 keeps the
\* address of the ROM range and the configuration Locked|NAPOT|R|X.
C5_KernelCodeImmutable ==
    PmpCfg0Written =>
        /\ \A a \in ProbeAddrs :
              InRegion(a, MemoryRegions[1]) =>
                  ~PmpAllows("M", a, "W") /\ ~PmpAllows("U", a, "W")
        /\ PmpCfgByte(0) = {0, 2, 3, 4, 7}
        /\ NapotBase(pmpaddr[0]) = MemoryRegions[1].base
        /\ {NapotSizeLog2(pmpaddr[0])} = MemoryRegions[1].size

\* The launcher has since written mstatus and mepc, and entry 0 is locked.
C5_Witness ==
    /\ PmpCfg0Written
    /\ PmpLocked(0)
    /\ csr.mepc = <<"_u_entry", 0>>
    /\ pc = LabelPc("rot_main", "launch_mret")

\* C6: each (base, size) pair passed to pmp_napot_addr has a power-of-two
\* size and a base that is a multiple of it, and the value written to
\* pmpaddr(i) decodes (trailing ones give the size, the other bits the base)
\* to exactly the range of region i of the memory map.
C6_NapotEncodesRegions ==
    ConfigurePmpDone =>
        \A i \in 0..7 :
            LET base == pmp_args(i)[1]
                size == pmp_args(i)[2]
            IN  /\ Cardinality(size) = 1
                /\ \A b \in base : b >= Min(size)
                /\ NapotBase(pmpaddr[i]) = base
                /\ {NapotSizeLog2(pmpaddr[i])} = size
                /\ base = MemoryRegions[i + 1].base
                /\ size = MemoryRegions[i + 1].size

\* C7: of entries 0-7 only entry 0 is locked, and once configure_pmp has
\* run machine mode may read and write kernel RAM, the kernel shadow stacks,
\* user code, user rodata, user RAM, the user shadow stacks and the UART.
C7_OnlyEntry0Locked ==
    ConfigurePmpDone =>
        /\ \A i \in 0..7 : PmpLocked(i) <=> i = 0
        /\ \A a \in ProbeAddrs : \A k \in 2..8 :
              InRegion(a, MemoryRegions[k]) =>
                  PmpAllows("M", a, "R") /\ PmpAllows("M", a, "W")

\* The trap handler, in machine mode, has stored its frame on the user stack.
C7_Witness ==
    /\ ConfigurePmpDone
    /\ priv = "M"
    /\ pc[1] = "_trap_handler"
    /\ <<"_u_stack_top", -64>> \in DOMAIN mem

---------------------------------------------------------------------------
(* Launch and boot                                                         *)

\* C8: when the launcher's mret executes, mstatus.MPP = 0, mepc = _u_entry,
\* sp = _u_stack_top and gp = _u_sw_shadow_stack_bottom, so that the first
\* instruction executed in user mode is _u_entry, whether or not the hart
\* implements the shadow-stack-pointer CSR.
C8_LauncherEntersUserEntry ==
    (priv = "M" /\ pc = LabelPc("rot_main", "launch_mret")) =>
        /\ csr.mstatus = <<"mstatus", 0>>
        /\ csr.mepc = <<"_u_entry", 0>>
        /\ regs["sp"] = <<"_u_stack_top", 0>>
        /\ regs["gp"] = <<"_u_sw_shadow_stack_bottom", 0>>

\* The hart implements none of menvcfg, senvcfg and ssp.
CfiAbsent == ~hw.menvcfg /\ ~hw.senvcfg /\ ~hw.ssp

\* The UART has received 'O', 'K', LF in that order.
OkSent ==
    \E i, j, k \in 1..Len(uart) :
        /\ i < j /\ j < k
        /\ uart[i] = <<"byte", 79>> /\ uart[j] = <<"byte", 75>> /\ uart[k] = <<"byte", 10>>

\* C9: with the CFI extensions absent, the kernel leaves machine mode for
\* user mode at _u_entry, and eventually user mode runs at _u_entry, the
\* UART has received 'O', 'K', LF, and 0x5555 is then written to the test
\* finisher.
C9_BootReachesPass ==
    /\ [][(CfiAbsent /\ priv = "M" /\ pc[1] = "rot_main" /\ priv' = "U")
              => pc' = <<"_u_entry", 0>>]_vars
    /\ (CfiAbsent => <>(priv = "U" /\ pc = <<"_u_entry", 0>>))
    /\ (CfiAbsent => <>(OkSent /\ finisher = <<Abs(21845)>>))

\* enable_cfi is running and a CSR access of its three is the next or the
\* trapped instruction: the message before that access is the last output.
EnableCfiAccess ==
    CASE uart = << >> -> ""
      [] Last(uart) = <<"puts", 247>> -> "csrs_menvcfg"
      [] Last(uart) = <<"puts", 256>> -> "csrs_senvcfg"
      [] Last(uart) = <<"puts", 265>> -> "csrw_ssp"
      [] OTHER -> ""

\* The handler, about to return from a trap taken in enable_cfi, returns to
\* machine mode at the instruction after the trapped access, sp restored.
EnableCfiTrapSkipped ==
    (pc = LabelPc("_trap_handler", "trap_mret") /\ EnableCfiAccess # "") =>
        /\ ~CsrExists(InsAt(LabelPc("rot_main", EnableCfiAccess))[3])
        /\ csr.mcause = Abs(2)
        /\ csr.mepc = Off(LabelPc("rot_main", EnableCfiAccess), 4)
        /\ csr.mstatus = <<"mstatus", 3>>
        /\ regs["sp"] = <<"_m_stack_top", 0>>

EnableCfiEnd == priv = "M" /\ pc = LabelPc("rot_main", "enable_cfi_end")

\* C10: whichever of the three CSR accesses of enable_cfi trap, the handler
\* returns to machine mode just past the trapped access, and execution
\* reaches the end of enable_cfi with sp as it was.
C10_EnableCfiTerminates ==
    /\ []EnableCfiTrapSkipped
    /\ [](EnableCfiEnd => regs["sp"] = <<"_m_stack_top", 0>>)
    /\ <>EnableCfiEnd

\* enable_cfi has ended on a hart where all three accesses trapped.
C10_Witness == EnableCfiEnd /\ CfiAbsent /\ csr.mcause = Abs(2)

---------------------------------------------------------------------------
(* Order of the kernel's phases                                            *)

\* A message of the given source line is on the UART.
Said(line) == \E k \in 1..Len(uart) : uart[k] = <<"puts", line>>

PmpProgrammed == pmpaddr = ProgrammedPmpAddr /\ pmpcfg = ProgrammedPmpCfg

\* C11: the kernel's phases run in the order CFI enable, PMP configure,
\* measure_firmware, seal_secret, launcher: a phase has begun only if the
\* one before it has ended; and whenever the hart is in user mode all of
\* pmpaddr0-7 and pmpcfg0-1 hold the values configure_pmp writes.
C11_PhasesInOrder ==
    /\ Said(122) => Said(277)
    /\ (pmpaddr # [i \in PmpEntries |-> {}] \/ pmpcfg # [r \in 0..3 |-> {}]) => Said(122)
    /\ pc[1] = "rot_measure_firmware" => ConfigurePmpDone /\ ~Said(828)
    /\ Said(828) => ConfigurePmpDone
    /\ pc[1] = "rot_seal_secret" => Said(828) /\ ~Said(838)
    /\ Said(838) => Said(828)
    /\ Said(559) => Said(838)
    /\ priv = "U" => Said(564) /\ PmpProgrammed

\* The first user-mode instruction of a boot, all five phases behind it.
C11_Witness ==
    /\ priv = "U"
    /\ pc = <<"_u_entry", 0>>
    /\ PmpProgrammed
    /\ Said(277) /\ Said(232) /\ Said(828) /\ Said(838) /\ Said(564)

---------------------------------------------------------------------------
(* The boot prologue of both images                                        *)

\* The symbols each image's _start uses.
Images ==
    { [start |-> "_start", handler |-> "_trap_handler", stack_top |-> "_m_stack_top",
       bss |-> "_m_bss_start", data |-> "_m_data_start",
       bottom |-> "_m_sw_shadow_stack_bottom", main |-> "rot_main"],
      [start |-> "demo._start", handler |-> "demo._trap_handler", stack_top |-> "_stack_top",
       bss |-> "_bss_start", data |-> "_data_start",
       bottom |-> "_sw_shadow_stack_bottom", main |-> "main"] }

DemoFunctions ==
    {"demo._start", "demo._trap_handler", "main", "triple", "add_42", "square",
     "call_and_inc"}

\* The image the function at pc belongs to.
ImageAtPc == CHOOSE img \in Images : (img.start = "demo._start") <=> (pc[1] \in DemoFunctions)

BssZeroed(img) ==
    \A k \in 0..(BssWords - 1) :
        <<img.bss, 4 * k>> \in DOMAIN mem /\ mem[<<img.bss, 4 * k>>] = Abs(0)

DataCopied(img) ==
    \A k \in 0..(DataWords - 1) :
        <<img.data, 4 * k>> \in DOMAIN mem /\ mem[<<img.data, 4 * k>>] = <<"data_word", 4 * k>>

\* The byte offset in _start of the instruction that loads gp.
LaGp(img) ==
    4 * ((CHOOSE i \in 1..Len(Code(img.start)) :
             Code(img.start)[i][2] = "la" /\ Code(img.start)[i][3] = "gp") - 1)

\* The state of the five prologue steps while pc is at byte offset o of _start.
PrologueAt(img, o) ==
    /\ o >= 4 => regs["sp"] = <<img.stack_top, 0>>
    /\ (csr.mtvec = <<img.handler, 0>>) <=> (o >= 12)
    /\ o >= 12 => regs["sp"] = <<img.stack_top, 0>>
    /\ o < 12 => DOMAIN mem = {}
    /\ o >= LabelPc(img.start, "2")[2] => BssZeroed(img)
    /\ o <= LabelPc(img.start, "2")[2] => <<img.data, 0>> \notin DOMAIN mem
    /\ o >= LabelPc(img.start, "4")[2] => DataCopied(img)
    /\ o <= LaGp(img) => regs["gp"] = <<"gp", 0>>
    /\ o > LaGp(img) => regs["gp"] = <<img.bottom, 0>>

\* A CSR access that traps where the hart lacks the CSR.
CfiCsrAccess ==
    /\ Op \in {"csrr", "csrw", "csrs"}
    /\ {Ins[3], Ins[4]} \cap {"menvcfg", "senvcfg", "ssp"} # {}

\* The store of the software shadow-stack push, sw ra, 0(gp).
ShadowPush == Op = "sw" /\ Ins[3] = "ra" /\ Ins[4] = 0 /\ Ins[5] = "gp"

\* C12: in both images the boot prologue sets sp, installs mtvec, zeroes
\* .bss, copies .data and loads gp with the bottom of the software shadow
\* stack, in that order, and only then calls main. So every CSR access that
\* can fault on an absent CSR executes with mtvec at the image's trap
\* handler, and every software shadow-stack push with gp inside a software
\* shadow stack.
C12_PrologueOrder ==
    /\ \A img \in Images :
          /\ pc[1] = img.start => PrologueAt(img, pc[2])
          /\ pc = <<img.main, 0>> =>
                /\ regs["sp"] = <<img.stack_top, 0>>
                /\ csr.mtvec = <<img.handler, 0>>
                /\ BssZeroed(img) /\ DataCopied(img)
                /\ regs["gp"] = <<img.bottom, 0>>
                /\ regs["ra"] = <<img.start, LaGp(img) + 8>>
    /\ CfiCsrAccess => csr.mtvec = <<ImageAtPc.handler, 0>>
    /\ ShadowPush =>
          /\ regs["gp"][1] \in {ImageAtPc.bottom, "_u_sw_shadow_stack_bottom"}
          /\ regs["gp"][2] >= 0

\* The demo's main is entered on a hart without the CFI CSRs: both accesses
\* of the prologue have trapped and been skipped.
C12_Witness ==
    /\ pc = <<"main", 0>>
    /\ ~hw.menvcfg /\ ~hw.ssp
    /\ csr.mcause = Abs(2)
    /\ BssZeroed(ImageAtPc) /\ DataCopied(ImageAtPc)

---------------------------------------------------------------------------
(* The kernel's trap handler                                               *)

IsPrefix(s, t) == Len(s) <= Len(t) /\ s = SubSeq(t, 1, Len(s))

InHandler == priv = "M" /\ pc[1] = "_trap_handler"

\* The hart is in the two-instruction wait loop at the given label.
HaltedAt(label) ==
    /\ InHandler
    /\ pc \in {LabelPc("_trap_handler", label), Off(LabelPc("_trap_handler", label), 4)}

\* 'C', 'F', 'I', '!', LF.
CfiDiagnostic ==
    << <<"byte", 67>>, <<"byte", 70>>, <<"byte", 73>>, <<"byte", 33>>, <<"byte", 10>> >>

CfiTrap == InHandler /\ csr.mcause \in {Abs(c) : c \in CfiCauses}

\* C13: on a trap with cause 1 or 18 the handler never leaves machine mode
\* or its own code again, what it has written to the UART is at every
\* moment a prefix of 'C','F','I','!',LF, the test finisher stays
\* unwritten, and it ends in the wait loop with exactly those five bytes
\* written, for ever.
C13_CfiViolationHalts ==
    /\ [](CfiTrap => IsPrefix(uart, CfiDiagnostic) /\ finisher = << >>)
    /\ [][CfiTrap => CfiTrap']_vars
    /\ CfiTrap ~> [](HaltedAt("50") /\ uart = CfiDiagnostic)

\* User firmware jumped into its data buffer: the fetch was denied
\* (cause 1) and the handler has halted after the diagnostic.
C13_Witness ==
    /\ HaltedAt("50")
    /\ csr.mcause = Abs(1)
    /\ csr.mepc = <<"u_buf", 0>>
    /\ uart = CfiDiagnostic

\* The handler's four cases.
HandledCauses == {8, 2, 1, 18}

OtherTrap == InHandler /\ csr.mcause \notin {Abs(c) : c \in HandledCauses}

\* C14: on a trap of any other cause no step of the handler writes a byte
\* to the UART or a word to the test finisher, none leaves the handler or
\* machine mode, and the handler ends in its wait loop for ever.
C14_UnknownTrapHaltsSilently ==
    /\ [][OtherTrap => OtherTrap' /\ uart' = uart /\ finisher' = finisher]_vars
    /\ [](OtherTrap => uart = << >> /\ finisher = << >>)
    /\ OtherTrap ~> []HaltedAt("_handle_unknown_trap")

\* A breakpoint exception (cause 3) taken from user mode, halted silently.
C14_Witness ==
    /\ HaltedAt("_handle_unknown_trap")
    /\ csr.mcause = Abs(3)
    /\ csr.mstatus = <<"mstatus", 0>>
    /\ uart = << >>
    /\ finisher = << >>

---------------------------------------------------------------------------
(* The software shadow-stack check under fault injection                   *)

\* The handler has halted in one of its wait loops.
Halted == HaltedAt("50") \/ HaltedAt("_handle_unknown_trap") \/ HaltedAt("21")

\* The last five bytes on the UART are the CFI diagnostic.
DiagnosticEmitted ==
    /\ Len(uart) >= 5
    /\ SubSeq(uart, Len(uart) - 4, Len(uart)) = CfiDiagnostic

\* C15: when the kernel has halted on the breakpoint of a mismatch check
\* of rot_measure_firmware or rot_seal_secret, the UART has received
\* CFI!<LF>.
C15_MismatchEmitsDiagnostic ==
    (/\ Halted
     /\ csr.mcause = Abs(3)
     /\ csr.mepc \in {LabelPc("rot_measure_firmware", "99"), LabelPc("rot_seal_secret", "99")})
        => DiagnosticEmitted

\* The word in the frame's slot 12(sp) differs from the shadow stack's copy,
\* at the comparison of the epilogue.
MismatchAtCheck ==
    /\ pc[1] \in ProtectedRoutines
    /\ Op = "bne"
    /\ Load(Off(regs["sp"], 12)) # Load(regs["gp"])

\* C16: in rot_measure_firmware, rot_seal_secret and u_double, when the
\* word at 12(sp) was changed between prologue and epilogue the comparison
\* of the epilogue branches to the ebreak at label 99; the routine's ret
\* executes only with ra equal to the shadow stack's copy and to an
\* unchanged slot, and the pc is never the address written into the slot.
C16_CorruptedReturnNeverTaken ==
    /\ [][MismatchAtCheck => pc' = LabelPc(pc[1], "99")]_vars
    /\ []((pc[1] \in ProtectedRoutines /\ Op = "ret") =>
             /\ regs["ra"] = Load(regs["gp"])
             /\ regs["ra"] = Load(Off(regs["sp"], -4)))
    /\ [](pc[1] # "evil")

\* u_double, its saved return address overwritten, is at its ebreak.
C16_Witness ==
    /\ pc = LabelPc("u_double", "99")
    /\ priv = "U"
    /\ regs["ra"] = <<"evil", 0>>
    /\ regs["t0"] = <<"_u_entry", 28>>

---------------------------------------------------------------------------
(* System calls                                                            *)

EcallTrap == InHandler /\ csr.mcause = Abs(8)

\* The 64 bytes the handler reserves below the interrupted sp.
FrameAddrs == {<<"_u_stack_top", 4 * k - 64>> : k \in 0..15}

\* The arguments of the system call, as saved in the frame.
SavedReg(off) == mem[<<"_u_stack_top", off - 64>>]

FrameSaved == EcallTrap /\ pc[2] >= LabelPc("_trap_handler", "_handle_ecall")[2]

\* This step writes to the UART, to the test finisher, or to memory
\* outside the handler's frame.
BodyWrite ==
    \/ uart' # uart
    \/ finisher' # finisher
    \/ \E a \in (DOMAIN mem') \ FrameAddrs : a \notin DOMAIN mem \/ mem'[a] # mem[a]

\* C17: on an ecall trap mepc is the address of the ecall until
\* _handle_ecall and that address plus 4 from the dispatch on a7 onwards,
\* and every step of the handler that writes to the UART, to the test
\* finisher, or to memory outside the frame finds mepc already advanced;
\* for every syscall number 0..4.
C17_MepcAdvancedBeforeBody ==
    /\ [](EcallTrap =>
            /\ pc[2] <= LabelPc("_trap_handler", "_handle_ecall")[2] => csr.mepc = EcallPc
            /\ pc[2] >= LabelPc("_trap_handler", "ecall_dispatch")[2] =>
                  csr.mepc = Off(EcallPc, 4))
    /\ [][(EcallTrap /\ BodyWrite) => csr.mepc = Off(EcallPc, 4)]_vars

\* get_random has stored into the user's buffer, mepc advanced.
C17_Witness ==
    /\ FrameSaved
    /\ SavedReg(28) = Abs(3)
    /\ mem[<<"u_buf", 0>>] = Abs(170)
    /\ csr.mepc = Off(EcallPc, 4)

---------------------------------------------------------------------------
(* The illegal-instruction skip of both handlers                           *)

\* The run began at bytes that are no instruction, in user code (kernel
\* image) or in the demo.
IllegalRun == \E a \in DOMAIN mem : a[1] \in {"u_blob", "demo.blob"}

\* The address of those bytes, and the halfword there.
TrapSite ==
    IF IllegalRun THEN CHOOSE a \in DOMAIN mem : a[1] \in {"u_blob", "demo.blob"}
    ELSE <<"", 0>>

TrapHalfword == IF IllegalRun THEN mem[TrapSite][2] ELSE 0

\* The address the handler must resume at.
SkipTarget == Off(TrapSite, IF TrapHalfword % 4 = 3 THEN 4 ELSE 2)

\* pc is at the mret of the image's handler.
AtHandlerMret ==
    /\ priv = "M"
    /\ pc \in {LabelPc("_trap_handler", "trap_mret"), LabelPc("demo._trap_handler", "trap_mret")}

\* The handler has returned to the interrupted code.
Resumed ==
    /\ IllegalRun
    /\ pc = SkipTarget
    /\ csr.mepc = SkipTarget
    /\ priv = (IF TrapSite[1] = "u_blob" THEN "U" ELSE "M")

\* C18: for every halfword at the trapping pc and every 2-byte-aligned pc,
\* the kernel's handler (cause 2) and the demo's handler reach their mret
\* with mepc = pc + 4 when the halfword's low two bits are 11 and pc + 2
\* otherwise, and the mret resumes there in the interrupted mode.
C18_IllegalInstructionSkip ==
    /\ []((IllegalRun /\ AtHandlerMret) => csr.mepc = SkipTarget /\ csr.mcause = Abs(2))
    /\ []((IllegalRun /\ pc[1] = TrapSite[1]) => pc = TrapSite \/ Resumed)
    /\ (IllegalRun /\ pc = TrapSite) ~> Resumed

\* The kernel's handler has skipped a compressed instruction (0x9002) at
\* an address that is not a multiple of 4.
C18_Witness ==
    /\ IllegalRun
    /\ TrapSite = <<"u_blob", 6>>
    /\ TrapHalfword = 36866
    /\ pc = <<"u_blob", 8>>
    /\ priv = "U"

\* The handler is serving the system call with the given number.
Serving(n) == FrameSaved /\ SavedReg(28) = Abs(n)

\* C19: while the handler serves syscall 2, whatever a0 holds, it never
\* leaves the handler, the UART receives nothing, the test finisher
\* receives at most the one value 0x5555, written by a word store (sw) to
\* 0x0010_0000, and the handler ends in its wait loop with that one word
\* written, for ever.
C19_ExitWritesFinisherOnce ==
    /\ [](Serving(2) => uart = << >> /\ finisher \in {<< >>, <<Abs(21845)>>})
    /\ [][Serving(2) => Serving(2)']_vars
    /\ [][(Serving(2) /\ finisher' # finisher) =>
             /\ Op = "sw"
             /\ Off(regs[Ins[5]], Ins[4]) = Abs(1048576)]_vars
    /\ Serving(2) ~> [](HaltedAt("21") /\ finisher = <<Abs(21845)>>)

\* exit was called with a pointer in a0; the handler has halted.
C19_Witness ==
    /\ Serving(2)
    /\ HaltedAt("21")
    /\ SavedReg(16) = <<"u_buf", 1>>
    /\ finisher = <<Abs(21845)>>

\* The bytes at p, p+1, ..., p+n-1 as the UART receives them.
BytesAt(p, n) == [k \in 1..n |-> UartByte(Load(Off(p, k - 1)))]

\* The handler has returned from the ecall to user mode.
Returned == priv = "U" /\ pc = Off(EcallPc, 4)

\* C20: while the handler serves put_string(p, n) the UART content is a
\* prefix of the bytes at p..p+n-1 in ascending order; when it has returned
\* to the instruction after the ecall in user mode the UART holds exactly
\* those n bytes (none for n = 0); and it does return.
C20_PutStringWritesBytesInOrder ==
    /\ [](Serving(1) => IsPrefix(uart, BytesAt(SavedReg(16), SavedReg(20)[2])))
    /\ []((Returned /\ SavedReg(28) = Abs(1)) =>
             uart = BytesAt(SavedReg(16), SavedReg(20)[2]))
    /\ Serving(1) ~> Returned

\* put_string(u_buf + 1, MaxBytes) has returned, 'B' first on the UART.
C20_Witness ==
    /\ Returned
    /\ SavedReg(28) = Abs(1)
    /\ SavedReg(16) = <<"u_buf", 1>>
    /\ Len(uart) = MaxBytes
    /\ uart[1] = <<"byte", 66>>

---------------------------------------------------------------------------
(* System-call arguments                                                   *)

\* An address inside ROM, kernel RAM or the kernel shadow stacks.
KernelAddr(a) == \E k \in 1..3 : InRegion(Phys(a), MemoryRegions[k])

\* Every byte of [p, p+n) lies in a region user mode may access.
InUserRegion(p, n) ==
    \A k \in 0..(n - 1) : UserMay(Phys(Off(p, k))) # {}

\* C21: when user mode calls get_random (3) or put_string (1) with a range
\* [p, p+n) that is not inside a user region, no byte 0xAA is stored at a
\* kernel address and no byte of the kernel's data reaches the UART.
C21_SyscallRangeValidated ==
    /\ (Serving(3) /\ ~InUserRegion(SavedReg(16), SavedReg(20)[2])) =>
           \A a \in DOMAIN mem : KernelAddr(a) => mem[a] # Abs(170)
    /\ (Serving(1) /\ ~InUserRegion(SavedReg(16), SavedReg(20)[2])) =>
           \A i \in 1..Len(uart), a \in DOMAIN KernelData :
               uart[i] # UartByte(KernelData[a])

\* The handler is serving an ecall whose number is none of 0, 1, 2, 3.
UnknownCall == FrameSaved /\ SavedReg(28) \notin {Abs(n) : n \in 0..3}

\* C22: an ecall from user mode with a7 outside {0,1,2,3} writes nothing to
\* the UART, nothing to the test finisher and no memory outside the
\* handler's frame, and the handler returns to user mode at the
\* instruction after the ecall, UART and finisher still empty.
C22_UnknownSyscallReturnsSilently ==
    /\ [][UnknownCall => ~BodyWrite]_vars
    /\ [](UnknownCall => uart = << >> /\ finisher = << >>)
    /\ []((Returned /\ SavedReg(28) \notin {Abs(n) : n \in 0..3}) =>
             /\ uart = << >>
             /\ finisher = << >>
             /\ mem = [a \in DOMAIN mem |->
                         IF a \in FrameAddrs THEN mem[a] ELSE (UserBuffer @@ KernelData)[a]])
    /\ UnknownCall ~> Returned

\* Syscall 0xFFFF_FFFF with a pointer and a length has returned.
C22_Witness ==
    /\ Returned
    /\ SavedReg(28) = Abs(-1)
    /\ SavedReg(16) = <<"u_buf", 0>>
    /\ SavedReg(20) = Abs(MaxBytes)
    /\ uart = << >>

\* The addresses of the eight words the handler saves at 0(sp)..28(sp).
SaveSlots == {Off(regs.sp, 4 * k) : k \in 0..7}

\* C23: once the handler has saved its frame on an ecall from user mode,
\* the eight saved words lie in kernel RAM, at addresses user mode can
\* neither read nor write.
C23_FrameOnKernelStack ==
    FrameSaved =>
        \A a \in SaveSlots :
            /\ InRegion(Phys(a), MemoryRegions[2])
            /\ UserMay(Phys(a)) = {}

---------------------------------------------------------------------------
(* The routines as functions of their arguments                            *)

\* Words of firmware rot_measure_firmware is given at most.
MaxWords == 4

\* 32-bit values the routines are called with: 0, 1, 4, 6, 65536,
\* 0x5555_5556, 0x7FFF_FFFF, 0x8000_0000, 0xDEAD_BEEF, 0xFFFF_FFFF.
Words32 ==
    {0, 1, 4, 6, 65536, 1431655766, 2147483647, FromBits({31}),
     FromBits(HiLo(\hDEAD, \hBEEF)), -1}

\* The bitwise exclusive or of two 32-bit integers.
Xor32(m, n) == FromBits({i \in 0..31 : (i \in ToBits(m)) # (i \in ToBits(n))})

SealKeys == {0, 1, 2, -1}

\* Every exclusive or of keys.
KeySpan == {Xor32(Xor32(a, b), c) : a \in {0, 1}, b \in {0, 2}, c \in {0, -1}}

\* The data rot_seal_secret is given: each value, sealed any number of
\* times.
SealData == {Xor32(x, m) : x \in Words32, m \in KeySpan}

\* The return addresses of the calls, in a caller outside the model.
ReturnOf(fn) ==
    CASE fn = "rot_seal_secret" -> <<"caller", 0>>
      [] fn = "rot_measure_firmware" -> <<"caller", 4>>
      [] fn = "dispatch" -> <<"caller", 8>>
      [] fn = "call_and_inc" -> <<"caller", 12>>

\* The registers of kernel code that calls fn: stack and shadow stack as
\* _start set them.
KernelRegs(fn) ==
    [r \in RegNames |->
        CASE r = "zero" -> Abs(0)
          [] r = "sp" -> <<"_m_stack_top", 0>>
          [] r = "gp" -> <<"_m_sw_shadow_stack_bottom", 0>>
          [] r = "ra" -> ReturnOf(fn)
          [] OTHER -> <<r, 0>>]

\* rot_seal_secret(x, k) is called; s1 keeps the caller's copy of x.
SealInit ==
    /\ Launched
    /\ priv = "M"
    /\ pc = <<"rot_seal_secret", 0>>
    /\ csr = LaunchedCsr
    /\ mem = [a \in {} |-> Unknown]
    /\ \E x \in SealData, k \in SealKeys :
          regs = [KernelRegs("rot_seal_secret") EXCEPT
                     !["a0"] = Abs(x), !["a1"] = Abs(k), !["s1"] = Abs(x)]

\* The firmware words rot_measure_firmware may be pointed at.
FirmwareAddrs == {<<"u_blob", 4 * k>> : k \in 0..(MaxWords + 1)}

\* Two firmware images: the words 1, 2, 4, 8, ... and the words
\* 0xFFFF_FFFF, 0xFFFF_FFFC, 0xFFFF_FFF9, ...
FirmwareImages ==
    { [a \in FirmwareAddrs |-> Abs(Pow2(a[2] \div 4))],
      [a \in FirmwareAddrs |-> Abs(-1 - 3 * (a[2] \div 4))] }

\* rot_measure_firmware(base, 4 * n) is called; s1 keeps the caller's copy
\* of base.
MeasureInit ==
    /\ Launched
    /\ priv = "M"
    /\ pc = <<"rot_measure_firmware", 0>>
    /\ csr = LaunchedCsr
    /\ mem \in FirmwareImages
    /\ \E base \in {<<"u_blob", 0>>, <<"u_blob", 4>>}, n \in 0..MaxWords :
          regs = [KernelRegs("rot_measure_firmware") EXCEPT
                     !["a0"] = base, !["a1"] = Abs(4 * n), !["s1"] = base]

\* The demo after _start, in main: no PMP entry programmed.
DemoRunning ==
    /\ hw = [menvcfg |-> TRUE, senvcfg |-> TRUE, ssp |-> TRUE]
    /\ priv = "M"
    /\ pmpaddr = [i \in PmpEntries |-> {}]
    /\ pmpcfg = [r \in 0..3 |-> {}]
    /\ csr = [mstatus |-> <<"mstatus", 3>>, mepc |-> <<"mepc", 0>>,
              mcause |-> Abs(0), mtvec |-> <<"demo._trap_handler", 0>>,
              menvcfg |-> Abs(12), senvcfg |-> Abs(0),
              ssp |-> <<"_shadow_stack_top", 0>>]
    /\ mem = [a \in {} |-> Unknown]
    /\ uart = << >>
    /\ finisher = << >>

\* The registers of main when it calls fn.
DemoRegs(fn) ==
    [r \in RegNames |->
        CASE r = "zero" -> Abs(0)
          [] r = "sp" -> <<"_stack_top", 0>>
          [] r = "gp" -> <<"_sw_shadow_stack_bottom", 0>>
          [] r = "ra" -> ReturnOf(fn)
          [] OTHER -> <<r, 0>>]

\* The ids dispatch is called with: those of the table, 3, 7, 0xFFFF_FFFF.
DispatchIds == {0, 1, 2, 3, 7, -1}

\* dispatch(id, x) is called; s1 and s2 keep the caller's copies.
DispatchInit ==
    /\ DemoRunning
    /\ pc = <<"dispatch", 0>>
    /\ \E id \in DispatchIds, x \in Words32 :
          regs = [DemoRegs("dispatch") EXCEPT
                     !["a0"] = Abs(id), !["a1"] = Abs(x),
                     !["s1"] = Abs(id), !["s2"] = Abs(x)]

\* call_and_inc(fp, x) is called; s1 and s2 keep the caller's copies.
CallAndIncInit ==
    /\ DemoRunning
    /\ pc = <<"call_and_inc", 0>>
    /\ \E fp \in {"triple", "add_42", "square"}, x \in Words32 :
          regs = [DemoRegs("call_and_inc") EXCEPT
                     !["a0"] = <<fp, 0>>, !["a1"] = Abs(x),
                     !["s1"] = <<fp, 0>>, !["s2"] = Abs(x)]

RoutineInit == SealInit \/ MeasureInit \/ DispatchInit \/ CallAndIncInit

RoutineNext ==
    \/ Exec_alu
    \/ Exec_load
    \/ Exec_store
    \/ Exec_branch
    \/ Exec_jump
    \/ Exec_cfi

RoutineSpec == RoutineInit /\ [][RoutineNext]_vars

\* C24: when rot_seal_secret(x, k) has returned, a0 holds x XOR k, for
\* every 32-bit x and k; that result is itself an argument the routine is
\* called with, and x XOR k XOR k is x again, so sealing twice with the
\* same key gives x back.
C24_SealIsXorInvolution ==
    pc = ReturnOf("rot_seal_secret") =>
        /\ regs.a0 = Abs(Xor32(regs.s1[2], regs.a1[2]))
        /\ regs.a0[2] \in SealData /\ regs.a1[2] \in SealKeys
        /\ Xor32(regs.a0[2], regs.a1[2]) = regs.s1[2]

\* rot_seal_secret(0xDEAD_BEEF, 1) has returned 0xDEAD_BEEE.
C24_Witness ==
    /\ pc = ReturnOf("rot_seal_secret")
    /\ regs.s1 = Abs(FromBits(HiLo(\hDEAD, \hBEEF)))
    /\ regs.a1 = Abs(1)
    /\ regs.a0 = Abs(FromBits(HiLo(\hDEAD, \hBEEE)))

\* The exclusive or of the n words at base, base+4, ...: bit b is set when
\* an odd number of the words have it.
XorOfWords(base, n) ==
    Abs(FromBits({b \in 0..31 :
            Cardinality({k \in 0..(n - 1) : b \in ToBits(mem[Off(base, 4 * k)][2])}) % 2 = 1}))

\* The number of words of the call: (end - base) / 4, end in a1 from the
\* second instruction of the body on.
MeasuredWords == (regs.a1[2] - regs.s1[2]) \div 4

\* C25: rot_measure_firmware(base, 4n) returns the exclusive or of the n
\* words at base..base+4n-4 (0 for n = 0), and every load it executes is
\* of one of those words or of its own stack frame and shadow-stack slot;
\* over the words 1, 2, 4, 8 it returns 0xF.
C25_MeasureIsXorOfWords ==
    /\ pc = ReturnOf("rot_measure_firmware") =>
          regs.a0 = XorOfWords(regs.s1, MeasuredWords)
    /\ (pc[1] = "rot_measure_firmware" /\ Op = "lw") =>
          \/ /\ Ins[5] = "a0"
             /\ Off(regs.a0, Ins[4]) \in {Off(regs.s1, 4 * k) : k \in 0..(MeasuredWords - 1)}
          \/ /\ Ins[5] = "sp"
             /\ Off(regs.sp, Ins[4]) \in {<<"_m_stack_top", -4>>, <<"_m_stack_top", -8>>}
          \/ /\ Ins[5] = "gp"
             /\ Off(regs.gp, Ins[4]) = <<"_m_sw_shadow_stack_bottom", 0>>

\* rot_measure_firmware over the four words 1, 2, 4, 8 has returned 0xF.
C25_Witness ==
    /\ pc = ReturnOf("rot_measure_firmware")
    /\ regs.s1 = <<"u_blob", 0>>
    /\ regs.a1 = <<"u_blob", 16>>
    /\ mem[<<"u_blob", 4>>] = Abs(2)
    /\ regs.a0 = Abs(15)

\* x * x modulo 2^32 for the values of Words32.
SquareOf(x) ==
    CASE x \in {0, 65536, FromBits({31})} -> 0
      [] x \in {1, -1, 2147483647} -> 1
      [] x = 4 -> 16
      [] x = 6 -> 36
      [] x = 1431655766 -> FromBits(HiLo(\hE38E, \h38E4))
      [] x = FromBits(HiLo(\hDEAD, \hBEEF)) -> FromBits(HiLo(\h216D, \hA321))

\* What the handlers compute: 3x, x + 42 and x * x modulo 2^32.
HandlerResult(fn, x) ==
    CASE fn = "triple" -> WrapAdd(WrapAdd(x, x), x)
      [] fn = "add_42" -> WrapAdd(x, 42)
      [] fn = "square" -> SquareOf(x)

Handlers == {"triple", "add_42", "square"}

\* The handler the claim names for each id 0, 1, 2.
HandlerOf(id) == <<"triple", "add_42", "square">>[id + 1]

\* C26: dispatch(id, x) returns Some(3x), Some(x + 42), Some(x * x)
\* (modulo 2^32) for id 0, 1, 2 and None for every other id; while it runs
\* no handler but the one of the id is entered, none at all for another
\* id; and call_and_inc(fp, x) returns fp(x) + 1 modulo 2^32.
C26_DispatchAndCallAndInc ==
    /\ pc = ReturnOf("dispatch") =>
          IF regs.s1[2] \in 0..2
          THEN /\ regs.a0 = Abs(1)
               /\ regs.a1 = Abs(HandlerResult(HandlerOf(regs.s1[2]), regs.s2[2]))
          ELSE regs.a0 = Abs(0)
    /\ (pc[1] \in Handlers /\ regs.s1[1] = "abs") =>
          /\ regs.s1[2] \in 0..2
          /\ pc[1] = HandlerOf(regs.s1[2])
    /\ pc = ReturnOf("call_and_inc") =>
          regs.a0 = Abs(WrapAdd(HandlerResult(regs.s1[1], regs.s2[2]), 1))

\* dispatch(2, 6) has returned Some(36).
C26_Witness ==
    /\ pc = ReturnOf("dispatch")
    /\ regs.s1 = Abs(2)
    /\ regs.s2 = Abs(6)
    /\ regs.a0 = Abs(1)
    /\ regs.a1 = Abs(36)

---------------------------------------------------------------------------
(* Landing pads                                                            *)

\* Landing-pad enforcement is switched on: menvcfg exists and its LPE bit
\* (bit 2) is set.
LpeSet == hw.menvcfg /\ csr.menvcfg[1] = "abs" /\ 2 \in ToBits(csr.menvcfg[2])

\* The instruction is an indirect call that sets the expected-landing-pad
\* state: jalr through a register other than ra (x1), t0 (x5), t2 (x7).
IndirectCall == Op = "jalr" /\ Ins[4] \notin {"ra", "t0", "t2"}

CallTarget == Off(regs[Ins[4]], Ins[5])

\* The label the caller presents: bits 31:12 of t2 (x7), -1 when t2 holds
\* no known number.
PresentedLabel ==
    IF regs.t2[1] = "abs" THEN ToNat(Shr(ToBits(regs.t2[2]), 12)) ELSE -1

\* The target begins with a landing pad whose label is 0 or the one
\* presented.
LandsOnPad ==
    /\ InsAt(CallTarget)[2] = "lpad"
    /\ InsAt(CallTarget)[3] \in {0, PresentedLabel}

\* C27: with landing-pad enforcement on, every indirect call to a routine
\* of the program finds at the target a landing pad whose label matches,
\* so the call raises no CFI fault.
C27_IndirectCallsLand ==
    (LpeSet /\ IndirectCall /\ Code(CallTarget[1]) # << >>) => LandsOnPad

---------------------------------------------------------------------------
(* The user application                                                    *)

IsByte(e) == e[1] = "byte"

\* The bytes the UART has received through its data register.
UartBytes == SelectSeq(uart, IsByte)

\* 'O', 'K', LF.
OkLine == << <<"byte", 79>>, <<"byte", 75>>, <<"byte", 10>> >>

\* User mode is inside the application, or the handler is serving a trap
\* the application raised.
InUserApp ==
    \/ priv = "U" /\ pc[1] \in {"_u_entry", "u_add_100", "u_double"}
    \/ InHandler /\ csr.mepc[1] \in {"_u_entry", "u_add_100", "u_double"}

\* The pcs of the four ecalls of _u_entry.
EcallPcs == {<<"_u_entry", 4 * (k - 1)>> : k \in {i \in 1..Len(code_u_entry) : code_u_entry[i][2] = "ecall"}}

\* C28: from _u_entry in user mode the application calls u_add_100 with 42
\* and gets 142, then u_double with 25 and gets 50, both before any byte is
\* sent; the UART bytes are at every moment a prefix of 'O','K',LF; the
\* last ecall is exit with code 0, made when the three bytes are out; the
\* only traps are the four ecalls (mepc is the ecall or, once the handler
\* has advanced it, the instruction after); user mode never reaches the wait loop
\* after the exit ecall; and the run does end in the handler's halt with
\* 0x5555 written to the test finisher.
C28_UserAppSequence ==
    /\ []((priv = "U" /\ pc = <<"u_add_100", 0>>) =>
             regs.a0 = Abs(42) /\ UartBytes = << >>)
    /\ []((priv = "U" /\ pc = <<"_u_entry", 16>>) => regs.a0 = Abs(142))
    /\ []((priv = "U" /\ pc = <<"u_double", 0>>) =>
             regs.a0 = Abs(25) /\ UartBytes = << >>)
    /\ []((priv = "U" /\ pc = <<"_u_entry", 28>>) =>
             regs.a0 = Abs(50) /\ UartBytes = << >>)
    /\ [](InUserApp => IsPrefix(UartBytes, OkLine))
    /\ []((priv = "U" /\ pc = EcallPc) =>
             regs.a0 = Abs(0) /\ regs.a7 = Abs(2) /\ UartBytes = OkLine)
    /\ []((InUserApp /\ InHandler) =>
             /\ csr.mcause = Abs(8)
             /\ csr.mepc \in EcallPcs \cup {Off(a, 4) : a \in EcallPcs})
    /\ [](~(priv = "U" /\ pc[1] = "_u_entry" /\ pc[2] >= LabelPc("_u_entry", "70")[2]))
    /\ (priv = "U" /\ pc = <<"_u_entry", 0>>) ~>
          [](HaltedAt("21") /\ finisher = <<Abs(21845)>> /\ UartBytes = OkLine)

\* The handler has halted on the application's exit, 'O','K',LF sent.
C28_Witness ==
    /\ HaltedAt("21")
    /\ csr.mepc = Off(EcallPc, 4)
    /\ UartBytes = OkLine
    /\ finisher = <<Abs(21845)>>

---------------------------------------------------------------------------
(* Shadow-stack balance                                                    *)

\* The non-leaf CFI-protected routines of both images.
NonLeaf == {"triple", "call_and_inc", "rot_measure_firmware", "rot_seal_secret", "u_double"}

\* The byte offset of an (unlabelled) instruction in a routine.
OffsetOf(fn, ins) == 4 * ((CHOOSE i \in 1..Len(Code(fn)) : Code(fn)[i] = ins) - 1)

\* At code address f the routine's hardware push is done and its hardware
\* pop is not.
HwPushed(f) ==
    /\ f[2] > OffsetOf(f[1], I("sspush", "ra", 0, 0))
    /\ f[2] <= OffsetOf(f[1], I("sspopchk", "ra", 0, 0))

\* At code address f the routine's software push (store and bump of gp)
\* is done and its software pop is not.
SwPushed(f) ==
    /\ f[2] > OffsetOf(f[1], I("addi", "gp", "gp", 4))
    /\ f[2] <= OffsetOf(f[1], I("addi", "gp", "gp", -4))

\* Where the interrupted code is: the pc or, inside a trap handler, mepc.
ContextPc == IF pc[1] \in {"_trap_handler", "demo._trap_handler"} THEN csr.mepc ELSE pc

\* The code addresses of the active routine frames: the context and, when
\* it is a handler call_and_inc has called, the return address into
\* call_and_inc.
FramePcs ==
    {ContextPc} \cup
    (IF ContextPc[1] \in {"triple", "add_42", "square"} /\ regs.ra[1] = "call_and_inc"
     THEN {regs.ra} ELSE {})

\* Frames of non-leaf protected routines that are pushed in hardware, and
\* in software (the active frames).
HwPushes == Cardinality({f \in FramePcs : f[1] \in NonLeaf /\ HwPushed(f)})

SwPushes == Cardinality({f \in FramePcs : f[1] \in NonLeaf /\ SwPushed(f)})

\* The bottoms of the software shadow stacks, and the stack tops.
Bottoms == {"_sw_shadow_stack_bottom", "_m_sw_shadow_stack_bottom", "_u_sw_shadow_stack_bottom"}

StackTops == {"_stack_top", "_m_stack_top", "_u_stack_top"}

\* gp has been loaded by the boot code.
GpSet == regs.gp[1] \in Bottoms

\* The statement as worded: at every point gp is the bottom plus 4 times
\* the number of active frames, and hardware and software pushes are equal
\* in number.
C29_BalanceAtEveryPoint ==
    GpSet =>
        /\ regs.gp[2] = 4 * SwPushes
        /\ HwPushes = SwPushes

\* The number of frames outside the routine the pc is in.
OuterFrames == Cardinality({f \in FramePcs \ {pc} : f[1] \in NonLeaf})

\* C29: at the entry and at the ret of every non-leaf protected routine gp
\* is the bottom plus 4 per outer frame and sp the stack top minus 16 per
\* outer frame, so both are at the ret what they were at the entry; at
\* every point gp is the bottom plus 4 times the number of software pushes
\* not yet popped; and the hardware pushes not yet popped are as many, or
\* one more while a routine is between its hardware and its software push
\* or between its software and its hardware pop.
C29_ShadowStackBalance ==
    /\ (pc[1] \in NonLeaf /\ (pc[2] = 0 \/ Op = "ret")) =>
          /\ regs.gp[1] \in Bottoms /\ regs.gp[2] = 4 * OuterFrames
          /\ regs.sp[1] \in StackTops /\ regs.sp[2] = 0 - 16 * OuterFrames
    /\ GpSet =>
          /\ regs.gp[2] = 4 * SwPushes
          /\ HwPushes \in {SwPushes, SwPushes + 1}
          /\ (\A f \in FramePcs : f[1] \in NonLeaf => (HwPushed(f) <=> SwPushed(f))) =>
                HwPushes = SwPushes

\* triple is in its body, called by call_and_inc: two frames, gp at the
\* bottom plus 8.
C29_Witness ==
    /\ pc = <<"triple", 28>>
    /\ regs.ra[1] = "call_and_inc"
    /\ SwPushes = 2
    /\ HwPushes = 2
    /\ regs.gp = <<"_sw_shadow_stack_bottom", 8>>

---------------------------------------------------------------------------
(* Prologue and epilogue order                                             *)

\* The prologue after the landing pad: hardware push, frame, saves of ra
\* and gp, software push.
PrologueSteps ==
    << I("sspush", "ra", 0, 0),
       I("addi", "sp", "sp", -16),
       I("sw", "ra", 12, "sp"),
       I("sw", "gp", 8, "sp"),
       I("sw", "ra", 0, "gp"),
       I("addi", "gp", "gp", 4) >>

\* The epilogue: software pop, reload of ra, comparison, restore of gp,
\* release of the frame, hardware pop-and-check, ret.
EpilogueSteps ==
    << I("addi", "gp", "gp", -4),
       I("lw", "t0", 0, "gp"),
       I("lw", "ra", 12, "sp"),
       I("bne", "t0", "ra", "99"),
       I("lw", "gp", 8, "sp"),
       I("addi", "sp", "sp", 16),
       I("sspopchk", "ra", 0, 0),
       I("ret", 0, 0, 0) >>

\* The indices of the first and of the last instruction of the body.
BodyFirst == 2 + Len(PrologueSteps)

BodyLast(fn) == Len(Code(fn)) - 1 - Len(EpilogueSteps)

\* The code address is in the body of its routine.
InBody(f) == f[2] >= 4 * (BodyFirst - 1) /\ f[2] <= 4 * (BodyLast(f[1]) - 1)

\* C30: every non-leaf protected routine is a landing pad, the prologue
\* (hardware push first, software push last), a body without push, pop or
\* ret, the epilogue in mirror order and the ebreak; so whenever the pc is
\* in a body (at the nested indirect call of call_and_inc too) both pushes
\* are done and the shadow stack's top word is the saved ra, and at ret
\* both pops are done and ra is the shadow stack's word.
C30_PushBeforeBodyPopBeforeRet ==
    /\ \A fn \in NonLeaf :
          /\ Code(fn)[1][2] = "lpad"
          /\ SubSeq(Code(fn), 2, BodyFirst - 1) = PrologueSteps
          /\ SubSeq(Code(fn), BodyLast(fn) + 1, Len(Code(fn)) - 1) = EpilogueSteps
          /\ Code(fn)[Len(Code(fn))] = L("99", "ebreak", 0, 0, 0)
          /\ \A i \in BodyFirst..BodyLast(fn) :
                Code(fn)[i][2] \notin {"sspush", "sspopchk", "ret"}
    /\ pc[1] \in NonLeaf =>
          /\ (InBody(pc) \/ Op = "jalr") =>
                /\ InBody(pc) /\ HwPushed(pc) /\ SwPushed(pc)
                /\ Load(Off(regs.gp, -4)) = Load(Off(regs.sp, 12))
          /\ Op = "ret" =>
                /\ ~HwPushed(pc) /\ ~SwPushed(pc)
                /\ regs.ra = Load(regs.gp)

\* call_and_inc is at its indirect call to triple, both pushes done.
C30_Witness ==
    /\ pc[1] = "call_and_inc"
    /\ Op = "jalr"
    /\ regs.t1 = <<"triple", 0>>
    /\ HwPushed(pc) /\ SwPushed(pc)
    /\ Load(Off(regs.gp, -4)) = regs.ra

---------------------------------------------------------------------------
(* Registers across a trap                                                 *)

\* The registers of user firmware at the trap: as launched or, at an ecall,
\* with the arguments whose copies t3, s1 and s2 hold.
EntryRegs ==
    IF IllegalRun THEN UserRegs
    ELSE [UserRegs EXCEPT !["a7"] = regs.t3, !["a0"] = regs.s1, !["a1"] = regs.s2,
                          !["t3"] = regs.t3, !["s1"] = regs.s1, !["s2"] = regs.s2]

\* User mode runs again after the kernel's handler has saved a frame and
\* returned.
ResumedUser == priv = "U" /\ <<"_u_stack_top", -64>> \in DOMAIN mem

\* C31: when the kernel's handler has returned to user mode, from an ecall
\* or from the illegal-instruction skip, every general-purpose register
\* holds what it held at the trap.
C31_RegistersRestored == ResumedUser => regs = EntryRegs

---------------------------------------------------------------------------
(* The deny entries                                                        *)

\* Entry i is the first entry that matches address a, and grants nothing.
DeniesFirst(i, a) ==
    /\ PmpMode(i) # 0
    /\ PmpMatch(i, a)
    /\ \A j \in 0..(i - 1) : ~PmpMatch(j, a)
    /\ PmpCfgByte(i) \cap {0, 1, 2} = {}

\* C32: once configure_pmp has run, entry 1 is the first match, without
\* permissions, of every address of kernel RAM, and entry 2 of every
\* address of the kernel shadow stacks.
C32_DenyEntriesMatch ==
    ConfigurePmpDone =>
        \A a \in ProbeAddrs :
            /\ InRegion(a, MemoryRegions[2]) => DeniesFirst(1, a)
            /\ InRegion(a, MemoryRegions[3]) => DeniesFirst(2, a)

---------------------------------------------------------------------------
(* A mismatch in the demo                                                  *)

\* The non-leaf CFI-protected routines of the demo.
DemoProtected == {"triple", "call_and_inc"}

\* In a routine of the demo the word at 12(sp) is overwritten between the
\* prologue's save and the epilogue's reload; nothing else changes.
CorruptDemoSavedRa ==
    /\ pc[1] \in DemoProtected
    /\ pc[2] > InsOffset(pc[1], "sw", "ra", 12)
    /\ pc[2] <= InsOffset(pc[1], "lw", "ra", 12)
    /\ Load(Off(regs["sp"], 12)) = regs["ra"]
    /\ \E v \in CorruptValues(regs["ra"]) :
          mem' = [mem EXCEPT ![Off(regs["sp"], 12)] = v]
    /\ UNCHANGED <<hw, pc, priv, regs, csr, pmpaddr, pmpcfg, uart, finisher>>

BootFaultNext == FaultNext \/ CorruptDemoSavedRa

\* Either image from reset, with a saved return address overwritten.
BootFaultSpec == BootInit /\ [][BootFaultNext]_vars

\* The ebreak of a routine of the demo has raised its trap.
DemoMismatchTrap ==
    /\ csr.mcause = Abs(3)
    /\ csr.mepc[1] \in DemoProtected
    /\ csr.mepc[2] >= LabelPc(csr.mepc[1], "99")[2]

\* C33: in the demo, once the ebreak of triple or call_and_inc has raised
\* its trap the hart stays in the trap handler: it never fetches at the
\* address after the ebreak, nor anywhere else outside the handler.
C33_DemoMismatchIsFatal == DemoMismatchTrap => pc[1] = "demo._trap_handler"

---------------------------------------------------------------------------
(* Privilege across the trap handler                                       *)

\* The kernel from reset or the handler harness, user firmware free to run
\* on after a trap returns.
PrivNext == Next \/ Exec_illegal

PrivSpec == (Init \/ TrapInit) /\ [][PrivNext]_vars

\* The kernel's handler is serving a trap taken from user mode, from
\* machine mode.
ServingUser == InHandler /\ csr.mstatus = <<"mstatus", 0>>

ServingMachine == InHandler /\ csr.mstatus = <<"mstatus", 3>>

PrivilegeStep ==
    /\ (priv = "U" \/ ServingUser) => (priv' = "U" \/ ServingUser')
    /\ (priv = "U" /\ priv' = "M") => pc' = <<"_trap_handler", 0>>
    /\ (ServingUser /\ Op = "mret") => (priv' = "U" /\ pc' = csr.mepc)
    /\ ServingMachine => (priv' = "M" /\ (InHandler' => ServingMachine'))

\* C34: once the hart is in user mode, every later step is a user-mode
\* step or a step of the kernel's trap handler serving a trap from user
\* mode; machine mode is entered only at the handler's first instruction;
\* the handler's mret after a trap from user mode resumes in user mode at
\* mepc, and after a trap from machine mode it resumes in machine mode.
C34_NoPrivilegeEscalation == [][PrivilegeStep]_vars

\* User firmware resumed after its syscall: user mode, at the instruction
\* after the ecall, the frame popped.
C34_Witness ==
    /\ priv = "U"
    /\ csr.mcause = Abs(8)
    /\ pc = csr.mepc
    /\ pc = Off(LabelPc("_u_entry", "exit_ecall"), 4)
    /\ regs["sp"] = <<"_u_stack_top", 0>>

---------------------------------------------------------------------------
(* The word loop of rot_measure_firmware                                   *)

\* Iterations after which a run of the word loop is cut off.
MaxIterations == MaxWords + 2

\* Regions to measure: in the user's firmware, or the last 8 bytes of the
\* address space, where the cursor wraps to 0.
MeasureBases == {<<"u_blob", 0>>, <<"u_blob", 4>>, Abs(-8)}

\* Every size up to MaxWords words and 3 bytes; s1 and s2 keep the
\* caller's copies of base and size.
MeasureLoopInit ==
    /\ Launched
    /\ priv = "M"
    /\ pc = <<"rot_measure_firmware", 0>>
    /\ csr = LaunchedCsr
    /\ mem \in FirmwareImages
    /\ \E base \in MeasureBases, size \in 0..(4 * MaxWords + 3) :
          regs = [KernelRegs("rot_measure_firmware") EXCEPT
                     !["a0"] = base, !["a1"] = Abs(size),
                     !["s1"] = base, !["s2"] = Abs(size)]

\* The exit test of the word loop, and the first instruction after it.
LoopHead == LabelPc("rot_measure_firmware", "60")

LoopExit == LabelPc("rot_measure_firmware", "61")

\* Iterations of the word loop completed when the cursor is at the test.
Iterations == (regs["a0"][2] - regs["s1"][2]) \div 4

WithinCutOff == pc = LoopHead => Iterations < MaxIterations

MeasureLoopNext ==
    \/ Exec_alu
    \/ Exec_load
    \/ Exec_store
    \/ (WithinCutOff /\ Exec_branch)
    \/ Exec_jump
    \/ Exec_cfi

MeasureLoopSpec == MeasureLoopInit /\ [][MeasureLoopNext]_vars

MeasureLoopFairSpec == MeasureLoopSpec /\ WF_vars(MeasureLoopNext)

WholeWords == regs["s2"][2] % 4 = 0

\* The epilogue has begun, or the routine has returned to its caller.
PastLoop ==
    \/ pc[1] = "rot_measure_firmware" /\ pc[2] >= LoopExit[2]
    \/ pc[1] = "caller"

\* C35: a run whose size is a multiple of 4 reaches the instruction after
\* the loop and returns; it leaves the loop with the cursor at base + size
\* after size / 4 iterations; a run with any other size never leaves the
\* loop, neither to the epilogue nor to the caller.
C35_LoopExitsIffWholeWords ==
    /\ [](~WholeWords => ~PastLoop)
    /\ [](pc = LoopExit =>
            /\ WholeWords
            /\ regs["a0"] = VAdd(regs["s1"], regs["s2"])
            /\ Iterations * 4 = regs["s2"][2])
    /\ (WholeWords /\ ~PastLoop) ~> (pc = LoopExit)
    /\ WholeWords ~> (pc = ReturnOf("rot_measure_firmware"))

\* Three words at the top of the address space measured: the cursor went
\* from 0xFFFF_FFF8 through 0 to 4, and the routine is at its epilogue.
C35_Witness ==
    /\ pc = LoopExit
    /\ regs["s1"] = Abs(-8)
    /\ regs["a0"] = Abs(4)
    /\ regs["s2"] = Abs(12)

\* A size of 5 bytes: the loop is still running after more iterations than
\* the region has words.
C35_StillLooping ==
    /\ pc = LoopHead
    /\ regs["s2"] = Abs(5)
    /\ Iterations = MaxIterations

=============================================================================
